---------------------------- MODULE Spec2Model ----------------------------
(***************************************************************************)
(* Redfish event receiver (src/receiver.py): the deduplication cache, the  *)
(* per-device configuration overlay and the request handlers that use      *)
(* them, as a state machine of concurrent request handlers.                *)
(*                                                                         *)
(* Encoding of Python values:                                              *)
(*   dict        a function whose domain is the set of its keys            *)
(*   list        a sequence                                                *)
(*   None        the record None                                           *)
(*   a JSON string where a dict is expected: the record [py_str |-> s]     *)
(*   datetime    whole seconds since the start of the run                  *)
(***************************************************************************)
EXTENDS Integers, Sequences, FiniteSets, TLC

(***************************************************************************)
(* Bounds of the model and constants of the program.                       *)
(***************************************************************************)
\* clean_event_cache removes entries older than this many seconds.
RetentionCeiling == 3600

\* The clock of the concurrent specification takes the instants
\* 0..MaxSmall and RetentionCeiling..RetentionCeiling+MaxSmall.
MaxSmall == 2

\* The clock of the sequential specification takes the instants
\* 0..MaxSeqTime and RetentionCeiling + 1.
MaxSeqTime == 6

\* The history log holds at most MaxLog classifications.
MaxLog == 3

\* A cache entry's count is capped: a duplicate is only taken at a count
\* below MaxCount.
MaxCount == 3

Handlers == {1, 2}

Times == (0..MaxSmall) \cup {RetentionCeiling + k : k \in 0..MaxSmall}

SeqTimes == (0..MaxSeqTime) \cup {RetentionCeiling + 1}

(***************************************************************************)
(* Python values.                                                          *)
(***************************************************************************)
None == [py_none |-> TRUE]

EmptyDict == [k \in {} |-> k]

\* dict.get(key, default)
Get(d, key, default) == IF key \in DOMAIN d THEN d[key] ELSE default

\* Whether a value that stands where a dict is expected is a dict.
IsDict(v) == "py_str" \notin DOMAIN v /\ "py_none" \notin DOMAIN v

\* Truth value of a device_config (None or a dict).
Truthy(d) == IsDict(d) /\ DOMAIN d # {}

\* sep.join(parts) for a list of strings.
RECURSIVE Join(_, _)
Join(parts, sep) ==
  IF parts = <<>> THEN ""
  ELSE IF Len(parts) = 1 THEN parts[1]
  ELSE parts[1] \o sep \o Join(Tail(parts), sep)

(***************************************************************************)
(* Configuration sources and load_device_configs.                          *)
(***************************************************************************)
\* The config_*.json files: parse_ok is whether json.load succeeds.
ConfigFiles ==
  << [parse_ok |-> TRUE,
      data |-> [device_id |-> "dev1",
                device_name |-> "Server1",
                default_deduplication_window |-> 2,
                events |-> << [MessageId |-> "Alert.1.0",
                               EventType |-> "Alert",
                               Actions |-> <<"NotifyAdmin", "LogError">>],
                              [MessageId |-> "Alert.1.0",
                               EventType |-> "Alert",
                               Actions |-> <<"ShutdownServer">>] >>]],
     [parse_ok |-> FALSE, data |-> EmptyDict],
     [parse_ok |-> TRUE, data |-> [device_name |-> "Nameless"]] >>

\* Variant: the reload starts from the previous table.
fresh_table_keep(table) == table

\* Line 29, "device_configs = {}": the table a load starts from.
fresh_table(table) == EmptyDict

\* Whether a file gives a table entry: it parses and has a device_id that
\* is not empty.
is_valid_source(file) ==
  /\ file.parse_ok
  /\ "device_id" \in DOMAIN file.data
  /\ file.data.device_id # ""

\* Variant: a source that cannot be used ends the load with what it has
\* and drops the sources after it.
load_one_stop(table, file) ==
  IF "stopped" \in DOMAIN table THEN table
  ELSE IF ~is_valid_source(file) THEN table @@ [stopped |-> EmptyDict]
  ELSE [d \in DOMAIN table \cup {file.data.device_id} |->
          IF d = file.data.device_id THEN file.data ELSE table[d]]

\* One iteration of the loop over config_files: the table after reading
\* one file.
load_one(table, file) ==
  IF ~file.parse_ok THEN table
  ELSE IF "device_id" \in DOMAIN file.data /\ file.data.device_id # ""
       THEN [d \in DOMAIN table \cup {file.data.device_id} |->
               IF d = file.data.device_id THEN file.data ELSE table[d]]
       ELSE table

\* The table load_device_configs builds from the files, starting empty.
RECURSIVE load_from(_, _)
load_from(table, files) ==
  IF files = <<>> THEN table
  ELSE load_from(load_one(table, Head(files)), Tail(files))

load_device_configs(files) == load_from(EmptyDict, files)

(***************************************************************************)
(* Resolution of the window and the actions, and the fingerprint.          *)
(***************************************************************************)
\* Variant: an explicit window of 0 does not override the device default.
get_deduplication_window_nonzero(event, device_config) ==
  IF "DeduplicationTimeWindow" \in DOMAIN event
     /\ event["DeduplicationTimeWindow"] # 0
  THEN event["DeduplicationTimeWindow"]
  ELSE IF Truthy(device_config)
          /\ "default_deduplication_window" \in DOMAIN device_config
       THEN device_config["default_deduplication_window"]
       ELSE 0

get_deduplication_window(event, device_config) ==
  IF "DeduplicationTimeWindow" \in DOMAIN event
  THEN event["DeduplicationTimeWindow"]
  ELSE IF Truthy(device_config)
          /\ "default_deduplication_window" \in DOMAIN device_config
       THEN device_config["default_deduplication_window"]
       ELSE 0

\* Variant: the event type of the mapping is not compared.
mapping_matches_id_only(config_event, message_id, event_type) ==
  /\ "MessageId" \in DOMAIN config_event
  /\ config_event["MessageId"] = message_id

\* Lines 69-70: config_event.get(...) without default gives None for a
\* missing field, and None equals no message id or event type.
mapping_matches(config_event, message_id, event_type) ==
  /\ "MessageId" \in DOMAIN config_event
  /\ config_event["MessageId"] = message_id
  /\ "EventType" \in DOMAIN config_event
  /\ config_event["EventType"] = event_type

\* Variant: the last mapping that matches governs.
RECURSIVE first_match_last(_, _, _)
first_match_last(config_events, message_id, event_type) ==
  IF config_events = <<>> THEN <<>>
  ELSE IF mapping_matches(config_events[Len(config_events)],
                          message_id, event_type)
       THEN Get(config_events[Len(config_events)], "Actions", <<>>)
       ELSE first_match_last(SubSeq(config_events, 1, Len(config_events) - 1),
                             message_id, event_type)

\* The loop over device_config['events']: the first mapping that matches.
RECURSIVE first_match(_, _, _)
first_match(config_events, message_id, event_type) ==
  IF config_events = <<>> THEN <<>>
  ELSE IF mapping_matches(Head(config_events), message_id, event_type)
       THEN Get(Head(config_events), "Actions", <<>>)
       ELSE first_match(Tail(config_events), message_id, event_type)

get_event_actions(event, device_config) ==
  IF "Actions" \in DOMAIN event THEN event["Actions"]
  ELSE IF Truthy(device_config) /\ "events" \in DOMAIN device_config
       THEN first_match(device_config["events"],
                        Get(event, "MessageId", Get(event, "MessageID", "")),
                        Get(event, "EventType", ""))
       ELSE <<>>

\* generate_event_key raises when OriginOfCondition is not a dict
\* (origin.get of a str).
key_raises(event) == ~IsDict(Get(event, "OriginOfCondition", EmptyDict))

\* Variant: an absent severity leaves its component empty.
generate_event_key_noseverity(event) ==
  LET message_id == Get(event, "MessageId", Get(event, "MessageID", "Unknown"))
      event_type == Get(event, "EventType", "Unknown")
      device_id == Get(event, "DeviceId", "Unknown")
      severity == Get(event, "Severity", "")
      origin == Get(event, "OriginOfCondition", EmptyDict)
      origin_id == Get(origin, "@odata.id", "Unknown")
      message_args == Join(Get(event, "MessageArgs", <<>>), "_")
      key_elements == <<message_id, event_type, device_id, severity, origin_id>>
  IN  Join(IF message_args # "" THEN Append(key_elements, message_args)
           ELSE key_elements, "|")

generate_event_key(event) ==
  LET message_id == Get(event, "MessageId", Get(event, "MessageID", "Unknown"))
      event_type == Get(event, "EventType", "Unknown")
      device_id == Get(event, "DeviceId", "Unknown")
      severity == Get(event, "Severity", "Unknown")
      origin == Get(event, "OriginOfCondition", EmptyDict)
      origin_id == Get(origin, "@odata.id", "Unknown")
      message_args == Join(Get(event, "MessageArgs", <<>>), "_")
      key_elements == <<message_id, event_type, device_id, severity, origin_id>>
  IN  Join(IF message_args # "" THEN Append(key_elements, message_args)
           ELSE key_elements, "|")


(***************************************************************************)
(* The deduplication cache: the decisions and updates of                   *)
(* is_duplicate_event and clean_event_cache.                               *)
(***************************************************************************)
\* Variant: only a negative window opts out.
window_disabled_strict(dedup_window) == dedup_window < 0

\* "if dedup_window <= 0: return False"
window_disabled(dedup_window) == dedup_window <= 0

\* Variant: a negative elapsed time is not within the window.
within_window_nonneg(time_diff, dedup_window) ==
  0 <= time_diff /\ time_diff < dedup_window

\* Variant: the boundary elapsed = window still counts as within.
within_window_inclusive(time_diff, dedup_window) == time_diff <= dedup_window

\* Variant: an entry older than the retention ceiling is not a basis for
\* a duplicate.
within_window_retained(time_diff, dedup_window) ==
  time_diff < dedup_window /\ time_diff <= RetentionCeiling

\* Variant: the distance between the two times is compared, not their
\* difference.
within_window_abs(time_diff, dedup_window) ==
  (IF time_diff < 0 THEN 0 - time_diff ELSE time_diff) < dedup_window

\* "if time_diff.total_seconds() < dedup_window"
within_window(time_diff, dedup_window) == time_diff < dedup_window

\* Variant: any entry of the fingerprint makes a duplicate, whatever the
\* window of the occurrence.
is_duplicate_present(cache, event_key, current_time, dedup_window) ==
  event_key \in DOMAIN cache

\* Whether the critical section classifies the occurrence as a duplicate.
is_duplicate(cache, event_key, current_time, dedup_window) ==
  /\ event_key \in DOMAIN cache
  /\ within_window(current_time - cache[event_key].timestamp, dedup_window)

\* Variant: the increment is forgotten.
counted_not(last_event) == last_event

\* Variant: the increment is doubled.
counted_twice(last_event) == [last_event EXCEPT !.count = @ + 2]

\* last_event["count"] += 1: the timestamp and the device id are kept.
counted(last_event) == [last_event EXCEPT !.count = @ + 1]

\* Variant: the device id has no "Unknown" default.
new_entry_nodefault(current_time, event) ==
  [timestamp |-> current_time,
   count |-> 1,
   device_id |-> Get(event, "DeviceId", "")]

\* The entry written for a not-duplicate occurrence.
new_entry(current_time, event) ==
  [timestamp |-> current_time,
   count |-> 1,
   device_id |-> Get(event, "DeviceId", "Unknown")]

\* dict assignment cache[key] = value.
Put(cache, key, value) ==
  [k \in DOMAIN cache \cup {key} |-> IF k = key THEN value ELSE cache[k]]

\* Variant: a duplicate refreshes the timestamp (a sliding window).
record_event_refresh(cache, event_key, current_time, dedup_window, event) ==
  IF is_duplicate(cache, event_key, current_time, dedup_window)
  THEN Put(cache, event_key,
           [counted(cache[event_key]) EXCEPT !.timestamp = current_time])
  ELSE Put(cache, event_key, new_entry(current_time, event))

\* The cache after the critical section of is_duplicate_event.
record_event(cache, event_key, current_time, dedup_window, event) ==
  IF is_duplicate(cache, event_key, current_time, dedup_window)
  THEN Put(cache, event_key, counted(cache[event_key]))
  ELSE Put(cache, event_key, new_entry(current_time, event))

\* Variant: an entry aged exactly the ceiling is expired too.
is_expired_inclusive(age) == age >= RetentionCeiling

\* "(current_time - event_data['timestamp']).total_seconds() > 3600"
is_expired(age) == age > RetentionCeiling

\* The keys clean_event_cache collects in to_remove.
to_remove(cache, current_time) ==
  {k \in DOMAIN cache : is_expired(current_time - cache[k].timestamp)}

\* Variant: the deletion loop stops after its first key.
clean_event_cache_first(cache, current_time) ==
  IF to_remove(cache, current_time) = {} THEN cache
  ELSE [k \in DOMAIN cache \
             {CHOOSE r \in to_remove(cache, current_time) : TRUE} |-> cache[k]]

\* The cache after "for key in to_remove: del event_cache[key]".
clean_event_cache(cache, current_time) ==
  [k \in DOMAIN cache \ to_remove(cache, current_time) |-> cache[k]]

\* Variant: clear keeps one entry.
cleared_but_one(cache) ==
  IF DOMAIN cache = {} THEN cache
  ELSE [k \in {CHOOSE k \in DOMAIN cache : TRUE} |-> cache[k]]

\* clear_cache, line 297: event_cache.clear().
cleared(cache) == EmptyDict

\* view_cache, lines 281-286: the view of one entry; the age is taken from
\* the clock at the moment the entry is copied.
entry_view(data, clock) ==
  [timestamp |-> data.timestamp,
   count |-> data.count,
   device_id |-> Get(data, "device_id", "Unknown"),
   age_seconds |-> clock - data.timestamp]

(***************************************************************************)
(* Dispatch.                                                               *)
(***************************************************************************)
KnownActions ==
  {"NotifyAdmin", "NotifyNetworkAdmin", "ShutdownServer", "LogChange",
   "LogError", "LogPerformance", "LogUpdate", "MonitorTemperature",
   "MonitorCPU", "InitializeDrive", "UpdateInventory", "UpdateNetworkStatus",
   "CheckPowerSupplies", "CheckCabling", "RerouteTraffic"}

\* Line 164: the InitializeDrive branch calls .get on OriginOfCondition,
\* which raises AttributeError when that field is not a dict.
action_raises(action, event_data) ==
  /\ action = "InitializeDrive"
  /\ ~IsDict(Get(event_data, "OriginOfCondition", EmptyDict))

\* The positions of the list the loop of execute_actions reaches: all of
\* them, or those up to the first action that raises.
reached(actions, event_data) ==
  LET R == {i \in DOMAIN actions : action_raises(actions[i], event_data)}
  IN  IF R = {} THEN Len(actions)
      ELSE CHOOSE i \in R : \A j \in R : i <= j

\* Whether execute_actions raises.
execute_raises(actions, event_data) ==
  \E i \in DOMAIN actions : action_raises(actions[i], event_data)

\* execute_actions: what the loop hands to the executor, one record per
\* list position reached; an unrecognized name takes the else branch.
execute_actions(actions, event_data) ==
  [i \in 1..reached(actions, event_data) |->
     [action |-> actions[i], known |-> actions[i] \in KnownActions]]

\* Variant: the early return on a duplicate is missing.
dispatch_always(is_dup, actions, event_data) ==
  execute_actions(actions, event_data)

\* process_event, lines 231-235: what is dispatched given the
\* classification.
dispatch(is_dup, actions, event_data) ==
  IF is_dup THEN <<>> ELSE execute_actions(actions, event_data)

\* receive_event, lines 188-194: the events of a payload, in order.
events_of(payload) ==
  IF "Events" \in DOMAIN payload THEN payload["Events"]
  ELSE IF "EventType" \in DOMAIN payload THEN <<payload>>
  ELSE <<>>


(***************************************************************************)
(* Inbound payloads.                                                       *)
(***************************************************************************)
\* An alert of dev1 whose window and actions come from the device config.
EvCfg == [MessageId |-> "Alert.1.0", EventType |-> "Alert", DeviceId |-> "dev1"]

\* The same alert with an explicit window above the retention ceiling.
EvBig ==
  [MessageId |-> "Alert.1.0", EventType |-> "Alert", DeviceId |-> "dev1",
   DeduplicationTimeWindow |-> RetentionCeiling + 2,
   Actions |-> <<"NotifyAdmin", "Bogus">>]

\* The same alert with deduplication switched off.
EvOff ==
  [MessageId |-> "Alert.1.0", EventType |-> "Alert", DeviceId |-> "dev1",
   DeduplicationTimeWindow |-> 0, Actions |-> <<"LogChange">>]

\* The same alert with a negative window and an unrecognized action
\* between two recognized ones.
EvNeg ==
  [MessageId |-> "Alert.1.0", EventType |-> "Alert", DeviceId |-> "dev1",
   DeduplicationTimeWindow |-> -1,
   Actions |-> <<"NotifyAdmin", "Bogus", "LogError">>]

\* An event without DeviceId, MessageId and Severity.
EvAnon == [EventType |-> "Alert", DeduplicationTimeWindow |-> 2]

\* An event whose OriginOfCondition is a string, not a dict.
EvBad ==
  [EventType |-> "Alert", DeviceId |-> "dev1",
   OriginOfCondition |-> [py_str |-> "/redfish/v1/Systems/1"],
   DeduplicationTimeWindow |-> 2]

\* An event without DeviceId whose OriginOfCondition is a string.
EvAnonBad ==
  [EventType |-> "Alert",
   OriginOfCondition |-> [py_str |-> "/redfish/v1/Systems/1"],
   DeduplicationTimeWindow |-> 2]

\* An event with deduplication off whose OriginOfCondition is a string
\* and whose actions include InitializeDrive.
EvDrive ==
  [EventType |-> "Alert", DeviceId |-> "dev1",
   OriginOfCondition |-> [py_str |-> "/redfish/v1/Systems/1/Drives/1"],
   DeduplicationTimeWindow |-> 0,
   Actions |-> <<"LogChange", "InitializeDrive", "LogError">>]

\* The scenario event: window 5.
EvFive ==
  [MessageId |-> "Alert.1.0", EventType |-> "Alert", DeviceId |-> "dev1",
   DeduplicationTimeWindow |-> 5]

Payloads ==
  << EvCfg, EvBig, EvOff,
     [Events |-> <<EvBad, EvCfg>>],
     [Subscription |-> "unrelated"] >>

SeqPayloads == << EvFive, EvBig, EvOff, [Subscription |-> "unrelated"] >>

OpsPayloads ==
  << EvCfg, EvAnon, EvNeg, EvAnonBad,
     [Events |-> <<EvDrive, EvCfg>>],
     [Subscription |-> "unrelated"] >>

(***************************************************************************)
(* State.                                                                  *)
(***************************************************************************)
VARIABLES
  now,            \* the wall clock, in seconds
  event_cache,    \* event_key -> [timestamp, count, device_id]
  cache_lock,     \* 0 when free, else the handler holding it
  device_configs, \* device_id -> config
  configs_lock,   \* 0 when free, else the handler holding it
  pc,             \* handler -> where it is in its request
  frame,          \* handler -> the local variables of its request
  log,            \* history: classifications and expiries, in lock order
  last_cache_op,  \* history: the last operation on the cache
  config_files,   \* the config_*.json files on disk, in glob order
  reload,         \* the locals of the reload request
  observed,       \* the last read of the device table by a reader
  probe,          \* the arguments and results of the resolution functions
  admin,          \* the locals of the cache endpoint request
  rival,          \* the locals of a second, concurrent reload request
  health          \* the locals of the health_check request

\* The variables the event handlers leave alone.
aux == <<config_files, reload, observed, probe, admin, rival, health>>

vars ==
  <<now, event_cache, cache_lock, device_configs, configs_lock, pc, frame,
    log, last_cache_op, config_files, reload, observed, probe, admin, rival,
    health>>

\* The locals of a handler before it has a request.
NoFrame ==
  [pending |-> <<>>,          \* events of the payload still to process
   event |-> EmptyDict,
   device_config |-> None,
   dedup_window |-> 0,
   actions |-> <<>>,
   event_key |-> "",
   current_time |-> 0,
   is_dup |-> FALSE,          \* the value is_duplicate_event returned
   executed |-> <<>>,         \* what execute_actions handed over
   absent |-> FALSE,          \* history: the key was absent under the lock
   first |-> FALSE,           \* history: the key was absent at time capture
   overlap |-> FALSE,         \* history: another handler was between its
                              \* time capture and its critical section
                              \* with the same key
   to_remove |-> {},          \* clean_event_cache: the keys still to delete
   inserted_at |-> -1]        \* history: the captured time of a concurrent
                              \* first occurrence that inserted the key
                              \* while this one waited for the lock

NoOp == [op |-> "none", time |-> 0, removed |-> {}, settled |-> FALSE]

\* The locals of the reload request before it starts.
NoReload ==
  [pc |-> "idle",
   config_files |-> <<>>,     \* what glob returned, still to read
   before |-> EmptyDict,      \* history: the table when the lock was taken
   valid |-> <<>>,            \* history: the valid sources read so far
   skipped |-> FALSE,         \* history: a source was skipped
   installed |-> EmptyDict]   \* history: the table when the lock was released

\* The readers of the device table.
Readers == {"get_device_config", "list_devices", "health_check"}

\* No read yet.  phase is where the reload was when the read took place.
NoRead ==
  [reader |-> "none", phase |-> "idle", table |-> EmptyDict, count |-> 0,
   cache_size |-> 0]

NoProbe == [stage |-> "none"]

\* The locals of a cache endpoint request (view_cache, clear_cache)
\* before it starts.
NoAdmin ==
  [pc |-> "idle",
   keys |-> {},               \* view_cache: the entries still to copy
   cache_view |-> EmptyDict,  \* view_cache: the entries copied
   size |-> 0]                \* clear_cache: the size read

\* The locals of the second reload request before it starts.
NoRival ==
  [pc |-> "idle",
   config_files |-> <<>>,     \* what glob returned, still to read
   installed |-> EmptyDict]   \* history: the table when the lock was released

\* The locals of the health_check request before it starts.
NoHealth ==
  [pc |-> "idle",
   cache_size |-> 0]          \* len(event_cache), once it is read

Init ==
  /\ now = 0
  /\ event_cache = EmptyDict
  /\ cache_lock = 0
  /\ device_configs = load_device_configs(ConfigFiles)
  /\ configs_lock = 0
  /\ pc = [h \in Handlers |-> "idle"]
  /\ frame = [h \in Handlers |-> NoFrame]
  /\ log = <<>>
  /\ last_cache_op = NoOp
  /\ config_files = ConfigFiles
  /\ reload = NoReload
  /\ observed = NoRead
  /\ probe = NoProbe
  /\ admin = NoAdmin
  /\ rival = NoRival
  /\ health = NoHealth

\* Where a handler goes once an event is done: the next event of the
\* batch, or clean_event_cache.
route(pending) == IF pending = <<>> THEN "clean_event_cache" ELSE "process_event"

(***************************************************************************)
(* Actions.  history names the history variables that are kept: "log"     *)
(* and "ops" (last_cache_op).                                              *)
(***************************************************************************)
\* The clock advances to a later instant of T.
Tick(T) ==
  /\ \E t \in T : t > now /\ now' = t
  /\ UNCHANGED aux
  /\ UNCHANGED <<event_cache, cache_lock, device_configs, configs_lock, pc,
                 frame, log, last_cache_op>>

\* receive_event, lines 184-194: a payload arrives.
Receive(h, payloads) ==
  /\ pc[h] \in {"idle", "failed"}
  /\ \E i \in DOMAIN payloads :
       /\ frame' = [frame EXCEPT ![h] =
                      [NoFrame EXCEPT !.pending = events_of(payloads[i])]]
       /\ pc' = [pc EXCEPT ![h] = route(events_of(payloads[i]))]
  /\ UNCHANGED aux
  /\ UNCHANGED <<now, event_cache, cache_lock, device_configs, configs_lock,
                 log, last_cache_op>>

\* Variant: leaving the "with" block does not release the lock.
with_exit_kept(lock) == lock

\* The lock after its "with" block is left, by return or by exception.
with_exit(lock) == 0

\* get_device_config, line 47: "with configs_lock:" as a step of its own.
GetConfigLock(h) ==
  /\ pc[h] = "process_event"
  /\ configs_lock = 0
  /\ configs_lock' = h
  /\ pc' = [pc EXCEPT ![h] = "get_device_config"]
  /\ UNCHANGED aux
  /\ UNCHANGED <<now, event_cache, cache_lock, device_configs, frame, log,
                 last_cache_op>>

\* process_event, lines 200-229: the device config (read under
\* configs_lock, taken in this step or in the step before), the window and
\* the actions of the next event.
ProcessEvent(h) ==
  /\ \/ pc[h] = "process_event" /\ configs_lock = 0
     \/ pc[h] = "get_device_config" /\ configs_lock = h
  /\ configs_lock' = with_exit(configs_lock)
  /\ LET event == Head(frame[h].pending)
         device_config ==
           Get(device_configs, Get(event, "DeviceId", "Unknown"), None)
     IN  frame' = [frame EXCEPT ![h] =
                     [NoFrame EXCEPT
                        !.pending = Tail(frame[h].pending),
                        !.event = event,
                        !.device_config = device_config,
                        !.dedup_window =
                           get_deduplication_window(event, device_config),
                        !.actions = get_event_actions(event, device_config)]]
  /\ pc' = [pc EXCEPT ![h] = "is_duplicate_event"]
  /\ UNCHANGED aux
  /\ UNCHANGED <<now, event_cache, cache_lock, device_configs, log,
                 last_cache_op>>

\* is_duplicate_event, lines 94-100: the opt-out, the key and the time.
\* An exception ends the request (no later event, no clean_event_cache).
IsDuplicateEvent(h) ==
  /\ pc[h] = "is_duplicate_event"
  /\ LET f == frame[h]
         dedup_window == get_deduplication_window(f.event, f.device_config)
     IN  IF window_disabled(dedup_window)
         THEN /\ frame' = [frame EXCEPT ![h].is_dup = FALSE]
              /\ pc' = [pc EXCEPT ![h] = "classified"]
         ELSE IF key_raises(f.event)
         THEN /\ frame' = [frame EXCEPT ![h] = NoFrame]
              /\ pc' = [pc EXCEPT ![h] = "failed"]
         ELSE /\ frame' = [frame EXCEPT ![h] =
                [f EXCEPT
                   !.event_key = generate_event_key(f.event),
                   !.current_time = now,
                   !.first = generate_event_key(f.event) \notin DOMAIN event_cache,
                   !.overlap =
                      \E o \in Handlers \ {h} :
                        /\ pc[o] \in {"cache_lock", "check_and_record"}
                        /\ frame[o].event_key = generate_event_key(f.event)]]
              /\ pc' = [pc EXCEPT ![h] = "cache_lock"]
  /\ UNCHANGED aux
  /\ UNCHANGED <<now, event_cache, cache_lock, device_configs, configs_lock,
                 log, last_cache_op>>

\* "with cache_lock:" of is_duplicate_event.
AcquireCacheLock(h) ==
  /\ pc[h] = "cache_lock"
  /\ cache_lock = 0
  /\ cache_lock' = h
  /\ pc' = [pc EXCEPT ![h] = "check_and_record"]
  /\ UNCHANGED aux
  /\ UNCHANGED <<now, event_cache, device_configs, configs_lock, frame,
                 log, last_cache_op>>

\* The classifications the history log holds.
checks(l) == {i \in DOMAIN l : l[i].kind = "check"}

\* is_duplicate_event, lines 103-117: the critical section and the
\* release of the lock.
CheckAndRecord(h, history) ==
  /\ pc[h] = "check_and_record"
  /\ cache_lock = h
  /\ "log" \in history => Cardinality(checks(log)) < MaxLog
  /\ LET f == frame[h]
         dup == is_duplicate(event_cache, f.event_key, f.current_time,
                             f.dedup_window)
         cache == record_event(event_cache, f.event_key, f.current_time,
                               f.dedup_window, f.event)
     IN  /\ dup => event_cache[f.event_key].count < MaxCount
         /\ event_cache' = cache
         /\ frame' = [o \in Handlers |->
                        IF o = h
                        THEN [f EXCEPT
                                !.is_dup = dup,
                                !.absent = f.event_key \notin DOMAIN event_cache]
                        ELSE IF /\ pc[o] = "cache_lock"
                                /\ frame[o].event_key = f.event_key
                                /\ frame[o].first /\ f.first
                                /\ f.event_key \notin DOMAIN event_cache
                        THEN [frame[o] EXCEPT !.inserted_at = f.current_time]
                        ELSE frame[o]]
         /\ log' = IF "log" \in history
                   THEN Append(log, [kind |-> "check",
                                     key |-> f.event_key,
                                     time |-> f.current_time,
                                     window |-> f.dedup_window,
                                     dup |-> dup,
                                     count |-> cache[f.event_key].count])
                   ELSE log
  /\ cache_lock' = 0
  /\ pc' = [pc EXCEPT ![h] = "classified"]
  /\ last_cache_op' = IF "ops" \in history THEN [NoOp EXCEPT !.op = "write"]
                      ELSE last_cache_op
  /\ UNCHANGED aux
  /\ UNCHANGED <<now, device_configs, configs_lock>>

\* process_event, lines 231-235: skip a duplicate, else execute_actions;
\* then the next event of the batch.  An exception of execute_actions
\* ends the request.  (The overlap history of the other handlers ends with
\* the invocation it refers to.)
Classified(h) ==
  /\ pc[h] = "classified"
  /\ LET f == frame[h]
         raises == ~f.is_dup /\ execute_raises(f.actions, f.event)
     IN  /\ frame' = [o \in Handlers |->
                        IF o = h
                        THEN [NoFrame EXCEPT
                                !.pending = IF raises THEN <<>> ELSE f.pending,
                                !.actions = f.actions,
                                !.is_dup = f.is_dup,
                                !.executed = dispatch(f.is_dup, f.actions, f.event)]
                        ELSE [frame[o] EXCEPT !.overlap = FALSE]]
         /\ pc' = [pc EXCEPT ![h] = IF raises THEN "failed"
                                    ELSE route(f.pending)]
  /\ UNCHANGED aux
  /\ UNCHANGED <<now, event_cache, cache_lock, device_configs, configs_lock,
                 log, last_cache_op>>

\* clean_event_cache, line 120: the time is read before the lock.
CleanNow(h) ==
  /\ pc[h] = "clean_event_cache"
  /\ frame' = [frame EXCEPT ![h] = [NoFrame EXCEPT !.current_time = now]]
  /\ pc' = [pc EXCEPT ![h] = "clean_lock"]
  /\ UNCHANGED aux
  /\ UNCHANGED <<now, event_cache, cache_lock, device_configs, configs_lock,
                 log, last_cache_op>>

\* "with cache_lock:" of clean_event_cache.
CleanAcquire(h) ==
  /\ pc[h] = "clean_lock"
  /\ cache_lock = 0
  /\ cache_lock' = h
  /\ pc' = [pc EXCEPT ![h] = "clean_cache"]
  /\ UNCHANGED aux
  /\ UNCHANGED <<now, event_cache, device_configs, configs_lock, frame,
                 log, last_cache_op>>

\* clean_event_cache, lines 124-129, the release of the lock, and the
\* 200 response of receive_event.
CleanCache(h, history) ==
  /\ pc[h] = "clean_cache"
  /\ cache_lock = h
  /\ LET t == frame[h].current_time
         gone == to_remove(event_cache, t)
         again == last_cache_op.op \in {"clean", "clean_again"}
     IN  /\ event_cache' = clean_event_cache(event_cache, t)
         /\ log' = IF "log" \in history /\ gone # {}
                   THEN Append(log, [kind |-> "expired", keys |-> gone])
                   ELSE log
         /\ last_cache_op' =
              IF "ops" \in history
              THEN [op |-> IF again THEN "clean_again" ELSE "clean",
                    time |-> t,
                    removed |-> gone,
                    settled |-> again /\ t <= last_cache_op.time]
              ELSE last_cache_op
  /\ cache_lock' = 0
  /\ frame' = [frame EXCEPT ![h] = NoFrame]
  /\ pc' = [pc EXCEPT ![h] = "idle"]
  /\ UNCHANGED aux
  /\ UNCHANGED <<now, device_configs, configs_lock>>

\* clean_event_cache, lines 124-126: the loop that collects the expired
\* keys, under the lock.
CleanCollect(h) ==
  /\ pc[h] = "clean_cache"
  /\ cache_lock = h
  /\ frame' = [frame EXCEPT
                ![h].to_remove = to_remove(event_cache, frame[h].current_time)]
  /\ pc' = [pc EXCEPT ![h] = "clean_delete"]
  /\ UNCHANGED aux
  /\ UNCHANGED <<now, event_cache, cache_lock, device_configs, configs_lock,
                 log, last_cache_op>>

\* clean_event_cache, lines 128-129: one iteration of the loop that
\* deletes, under the lock.  The list is in the order of the dict, which
\* the table of the model does not keep: any collected key may come next.
CleanDelete(h) ==
  /\ pc[h] = "clean_delete"
  /\ cache_lock = h
  /\ \E key \in frame[h].to_remove :
       /\ event_cache' = [k \in DOMAIN event_cache \ {key} |-> event_cache[k]]
       /\ frame' = [frame EXCEPT ![h].to_remove = @ \ {key}]
  /\ UNCHANGED aux
  /\ UNCHANGED <<now, cache_lock, device_configs, configs_lock, pc, log,
                 last_cache_op>>

\* The end of "with cache_lock:" of clean_event_cache, and the 200
\* response of receive_event.
CleanRelease(h) ==
  /\ pc[h] = "clean_delete"
  /\ cache_lock = h
  /\ frame[h].to_remove = {}
  /\ cache_lock' = 0
  /\ frame' = [frame EXCEPT ![h] = NoFrame]
  /\ pc' = [pc EXCEPT ![h] = "idle"]
  /\ UNCHANGED aux
  /\ UNCHANGED <<now, event_cache, device_configs, configs_lock, log,
                 last_cache_op>>

\* The steps of one handler whose clean_event_cache deletes key by key:
\* the steps a reader that takes no lock can fall between.
HandlerByKey(h, payloads) ==
  \/ Receive(h, payloads)
  \/ ProcessEvent(h)
  \/ IsDuplicateEvent(h)
  \/ AcquireCacheLock(h)
  \/ CheckAndRecord(h, {})
  \/ Classified(h)
  \/ CleanNow(h)
  \/ CleanAcquire(h)
  \/ CleanCollect(h)
  \/ CleanDelete(h)
  \/ CleanRelease(h)

\* The steps of one handler.  Every other access to the cache takes the
\* lock, so the deletions of clean_event_cache are one step here.
Handler(h, payloads, history) ==
  \/ Receive(h, payloads)
  \/ ProcessEvent(h)
  \/ IsDuplicateEvent(h)
  \/ AcquireCacheLock(h)
  \/ CheckAndRecord(h, history)
  \/ Classified(h)
  \/ CleanNow(h)
  \/ CleanAcquire(h)
  \/ CleanCache(h, history)

\* Concurrent handlers, one per inbound request.
Next ==
  \/ \E h \in Handlers : Handler(h, Payloads, {})
  \/ Tick(Times)

Spec == Init /\ [][Next]_vars

\* One handler: the requests are served one after the other; the
\* classifications and expiries are logged.
NextSeq ==
  \/ Handler(1, SeqPayloads, {"log"})
  \/ Tick(SeqTimes)

SpecSeq == Init /\ [][NextSeq]_vars

\* One handler on two fingerprints; the last operation on the cache is
\* recorded.
NextOps ==
  \/ Handler(1, OpsPayloads, {"ops"})
  \/ Tick(Times)

SpecOps == Init /\ [][NextOps]_vars


(***************************************************************************)
(* One handler under fairness: payloads keep arriving and every request    *)
(* that has started goes on until it returns or raises.                    *)
(***************************************************************************)
\* The payloads of the fair specification: single events of one
\* fingerprint, an event that makes the request fail, and a payload without
\* event.
LivePayloads == << EvFive, EvBig, EvBad, [Subscription |-> "unrelated"] >>

\* A payload arrives; one with an event is only taken while every count is
\* below MaxCount, so that no request stops at the cap on the counts.
ReceiveLive(h, payloads) ==
  /\ Receive(h, payloads)
  /\ frame'[h].pending # <<>> =>
       \A k \in DOMAIN event_cache : event_cache[k].count < MaxCount

\* The steps of a request after its arrival.
Steps(h, history) ==
  \/ ProcessEvent(h)
  \/ IsDuplicateEvent(h)
  \/ AcquireCacheLock(h)
  \/ CheckAndRecord(h, history)
  \/ Classified(h)
  \/ CleanNow(h)
  \/ CleanAcquire(h)
  \/ CleanCache(h, history)

NextLive ==
  \/ ReceiveLive(1, LivePayloads)
  \/ Steps(1, {"ops"})
  \/ Tick(Times)

\* A request that has started is served (the server thread runs), and
\* payloads keep arriving and being handled by receive_event, whatever
\* they are.
SpecLive ==
  /\ Init
  /\ [][NextLive]_vars
  /\ WF_vars(Steps(1, {"ops"}))
  /\ SF_vars(ReceiveLive(1, LivePayloads))

(***************************************************************************)
(* The device table: reload_configs (load_device_configs) and its          *)
(* readers, while the files on disk change.                                *)
(***************************************************************************)
\* The holder of configs_lock during a reload.
Reloader == 3

Dev2 == [device_id |-> "dev2", default_deduplication_window |-> 5]

\* The contents the config directory can have: the initial one, none, only
\* sources that cannot be used, two valid sources around a parse failure,
\* and two sources of the same device.
FileSystems ==
  { ConfigFiles,
    <<>>,
    << [parse_ok |-> FALSE, data |-> EmptyDict],
       [parse_ok |-> TRUE, data |-> [device_id |-> "", device_name |-> "Empty"]] >>,
    << [parse_ok |-> TRUE, data |-> Dev2],
       [parse_ok |-> FALSE, data |-> EmptyDict],
       [parse_ok |-> TRUE, data |-> ConfigFiles[1].data] >>,
    << [parse_ok |-> TRUE, data |-> Dev2],
       [parse_ok |-> TRUE, data |-> [device_id |-> "dev2", device_name |-> "Again"]] >> }

\* The files on disk change, to one of the given contents.
FsChangeTo(contents) ==
  /\ \E fs \in contents : fs # config_files /\ config_files' = fs
  /\ UNCHANGED <<admin, rival>>
  /\ UNCHANGED <<now, event_cache, cache_lock, device_configs, configs_lock,
                 pc, frame, log, last_cache_op, reload, observed, probe,
                 health>>

FsChange == FsChangeTo(FileSystems)

\* load_device_configs, line 26: glob lists the files (by position),
\* before the lock is taken.
ReloadGlob ==
  /\ reload.pc = "idle"
  /\ reload' = [NoReload EXCEPT
                  !.pc = "lock",
                  !.config_files = [i \in 1..Len(config_files) |-> i]]
  /\ UNCHANGED <<admin, rival>>
  /\ UNCHANGED <<now, event_cache, cache_lock, device_configs, configs_lock,
                 pc, frame, log, last_cache_op, config_files, observed, probe,
                 health>>

\* Lines 28-29: "with configs_lock:" and "device_configs = {}".
ReloadAcquire ==
  /\ reload.pc = "lock"
  /\ configs_lock = 0
  /\ configs_lock' = Reloader
  /\ device_configs' = fresh_table(device_configs)
  /\ reload' = [reload EXCEPT !.pc = "load", !.before = device_configs]
  /\ UNCHANGED <<admin, rival>>
  /\ UNCHANGED <<now, event_cache, cache_lock, pc, frame, log, last_cache_op,
                 config_files, observed, probe, health>>

\* What open and json.load give for the file at a position glob listed: a
\* file that is gone raises like one that does not parse.
read_file(files, position) ==
  IF position \in DOMAIN files THEN files[position]
  ELSE [parse_ok |-> FALSE, data |-> EmptyDict]

\* Lines 30-41: one iteration of the loop, under the lock; an exception
\* is caught and the loop goes on.
ReloadFile ==
  /\ reload.pc = "load"
  /\ reload.config_files # <<>>
  /\ LET file == read_file(config_files, Head(reload.config_files))
     IN  /\ device_configs' = load_one(device_configs, file)
         /\ reload' = [reload EXCEPT
                         !.config_files = Tail(@),
                         !.valid = IF is_valid_source(file)
                                   THEN Append(@, file.data) ELSE @,
                         !.skipped = @ \/ ~is_valid_source(file)]
  /\ UNCHANGED <<admin, rival>>
  /\ UNCHANGED <<now, event_cache, cache_lock, configs_lock, pc, frame, log,
                 last_cache_op, config_files, observed, probe, health>>

\* The end of "with configs_lock:".
ReloadRelease ==
  /\ reload.pc = "load"
  /\ reload.config_files = <<>>
  /\ configs_lock' = 0
  /\ reload' = [reload EXCEPT !.pc = "done", !.installed = device_configs]
  /\ UNCHANGED <<admin, rival>>
  /\ UNCHANGED <<now, event_cache, cache_lock, device_configs, pc, frame, log,
                 last_cache_op, config_files, observed, probe, health>>

\* Lines 43-44 and 307-311: load_device_configs returns
\* len(device_configs), read after the lock was released, and
\* reload_configs answers 200 with that count; the histories of the reload
\* end here.
ReloadReturn ==
  /\ reload.pc = "done"
  /\ reload' = NoReload
  /\ observed' = [reader |-> "reload_configs",
                  phase |-> "idle",
                  table |-> reload.installed,
                  count |-> Cardinality(DOMAIN device_configs),
                  cache_size |-> 0]
  /\ UNCHANGED <<admin, rival>>
  /\ UNCHANGED <<now, event_cache, cache_lock, device_configs, configs_lock,
                 pc, frame, log, last_cache_op, config_files, probe, health>>

\* get_device_config, lines 46-48: the lookup of one device under the
\* lock.
GetDeviceConfig ==
  /\ configs_lock = 0
  /\ \E device_id \in {"dev1", "dev2"} :
       observed' =
         [reader |-> "get_device_config",
          phase |-> reload.pc,
          table |-> [d \in DOMAIN device_configs \cap {device_id} |->
                       device_configs[d]],
          count |-> 0,
          cache_size |-> 0]
  /\ UNCHANGED <<admin, rival>>
  /\ UNCHANGED <<now, event_cache, cache_lock, device_configs, configs_lock,
                 pc, frame, log, last_cache_op, config_files, reload, probe,
                 health>>

\* list_devices, lines 250-258: the loop over the table under the lock.
ListDevices ==
  /\ configs_lock = 0
  /\ observed' = [reader |-> "list_devices",
                  phase |-> reload.pc,
                  table |-> device_configs,
                  count |-> Cardinality(DOMAIN device_configs),
                  cache_size |-> 0]
  /\ UNCHANGED <<admin, rival>>
  /\ UNCHANGED <<now, event_cache, cache_lock, device_configs, configs_lock,
                 pc, frame, log, last_cache_op, config_files, reload, probe,
                 health>>

\* health_check, line 242: len(event_cache), read without a lock.
HealthCacheSize ==
  /\ health.pc = "idle"
  /\ health' = [pc |-> "devices",
                cache_size |-> Cardinality(DOMAIN event_cache)]
  /\ UNCHANGED <<admin, rival>>
  /\ UNCHANGED <<now, event_cache, cache_lock, device_configs, configs_lock,
                 pc, frame, log, last_cache_op, config_files, reload,
                 observed, probe>>

\* health_check, lines 243-244: len(device_configs), read without a lock
\* at a later moment, and the 200 response with the two sizes.
HealthDevices ==
  /\ health.pc = "devices"
  /\ observed' = [reader |-> "health_check",
                  phase |-> reload.pc,
                  table |-> EmptyDict,
                  count |-> Cardinality(DOMAIN device_configs),
                  cache_size |-> health.cache_size]
  /\ health' = NoHealth
  /\ UNCHANGED <<admin, rival>>
  /\ UNCHANGED <<now, event_cache, cache_lock, device_configs, configs_lock,
                 pc, frame, log, last_cache_op, config_files, reload, probe>>

NextCfg ==
  \/ FsChange
  \/ ReloadGlob
  \/ ReloadAcquire
  \/ ReloadFile
  \/ ReloadRelease
  \/ ReloadReturn
  \/ GetDeviceConfig
  \/ ListDevices
  \/ HealthCacheSize
  \/ HealthDevices

SpecCfg == Init /\ [][NextCfg]_vars

(***************************************************************************)
(* Two concurrent reloads.                                                 *)
(***************************************************************************)
\* The holder of configs_lock during the second reload.
Rival == 5

\* load_device_configs of the second request, line 26.
RivalGlob ==
  /\ rival.pc = "idle"
  /\ rival' = [NoRival EXCEPT
                 !.pc = "lock",
                 !.config_files = [i \in 1..Len(config_files) |-> i]]
  /\ UNCHANGED <<now, event_cache, cache_lock, device_configs, configs_lock,
                 pc, frame, log, last_cache_op, config_files, reload, observed,
                 probe, admin, health>>

\* Lines 28-29 of the second request.
RivalAcquire ==
  /\ rival.pc = "lock"
  /\ configs_lock = 0
  /\ configs_lock' = Rival
  /\ device_configs' = fresh_table(device_configs)
  /\ rival' = [rival EXCEPT !.pc = "load"]
  /\ UNCHANGED <<now, event_cache, cache_lock, pc, frame, log, last_cache_op,
                 config_files, reload, observed, probe, admin, health>>

\* Lines 30-41 of the second request: one iteration of the loop.
RivalFile ==
  /\ rival.pc = "load"
  /\ rival.config_files # <<>>
  /\ device_configs' =
       load_one(device_configs,
                read_file(config_files, Head(rival.config_files)))
  /\ rival' = [rival EXCEPT !.config_files = Tail(@)]
  /\ UNCHANGED <<now, event_cache, cache_lock, configs_lock, pc, frame, log,
                 last_cache_op, config_files, reload, observed, probe, admin,
                 health>>

\* The end of "with configs_lock:" of the second request.
RivalRelease ==
  /\ rival.pc = "load"
  /\ rival.config_files = <<>>
  /\ configs_lock' = 0
  /\ rival' = [rival EXCEPT !.pc = "done", !.installed = device_configs]
  /\ UNCHANGED <<now, event_cache, cache_lock, device_configs, pc, frame, log,
                 last_cache_op, config_files, reload, observed, probe, admin,
                 health>>

\* Lines 43-44 and 307-311 of the second request: load_device_configs
\* returns len(device_configs), read after the lock was released, and
\* reload_configs answers 200 with that count.
RivalReturn ==
  /\ rival.pc = "done"
  /\ rival' = NoRival
  /\ observed' = [reader |-> "reload_configs",
                  phase |-> "idle",
                  table |-> rival.installed,
                  count |-> Cardinality(DOMAIN device_configs),
                  cache_size |-> 0]
  /\ UNCHANGED <<now, event_cache, cache_lock, device_configs, configs_lock,
                 pc, frame, log, last_cache_op, config_files, reload, probe,
                 admin, health>>

NextReloads ==
  \/ FsChange
  \/ ReloadGlob
  \/ ReloadAcquire
  \/ ReloadFile
  \/ ReloadRelease
  \/ ReloadReturn
  \/ RivalGlob
  \/ RivalAcquire
  \/ RivalFile
  \/ RivalRelease
  \/ RivalReturn

SpecReloads == Init /\ [][NextReloads]_vars

(***************************************************************************)
(* The cache endpoints view_cache, clear_cache and health_check, beside an *)
(* event handler.                                                          *)
(***************************************************************************)
\* The holder of cache_lock during a cache endpoint request.
Admin == 4

\* GET /cache arrives and waits for the lock.
ViewCall ==
  /\ admin.pc = "idle"
  /\ admin' = [NoAdmin EXCEPT !.pc = "view_call"]
  /\ UNCHANGED <<now, event_cache, cache_lock, device_configs, configs_lock,
                 pc, frame, log, last_cache_op, config_files, reload, observed,
                 probe, rival, health>>

\* POST /cache/clear arrives and waits for the lock.
ClearCall ==
  /\ admin.pc = "idle"
  /\ admin' = [NoAdmin EXCEPT !.pc = "clear_call"]
  /\ UNCHANGED <<now, event_cache, cache_lock, device_configs, configs_lock,
                 pc, frame, log, last_cache_op, config_files, reload, observed,
                 probe, rival, health>>

\* "with cache_lock:" of view_cache (line 279), by a request that arrives
\* now or has been waiting.
ViewAcquire ==
  /\ admin.pc \in {"idle", "view_call"}
  /\ cache_lock = 0
  /\ cache_lock' = Admin
  /\ admin' = [NoAdmin EXCEPT !.pc = "view", !.keys = DOMAIN event_cache]
  /\ UNCHANGED <<now, event_cache, device_configs, configs_lock, pc, frame,
                 log, last_cache_op, config_files, reload, observed, probe,
                 rival, health>>

\* Lines 280-286: one iteration of the loop over the entries, under the
\* lock; datetime.now() is read in each iteration.
ViewEntry ==
  /\ admin.pc = "view"
  /\ \E key \in admin.keys :
       admin' = [admin EXCEPT
                   !.keys = @ \ {key},
                   !.cache_view =
                      Put(@, key, entry_view(event_cache[key], now))]
  /\ UNCHANGED <<now, event_cache, cache_lock, device_configs, configs_lock,
                 pc, frame, log, last_cache_op, config_files, reload, observed,
                 probe, rival, health>>

\* The end of "with cache_lock:" of view_cache.
ViewRelease ==
  /\ admin.pc = "view"
  /\ admin.keys = {}
  /\ cache_lock' = 0
  /\ admin' = [admin EXCEPT !.pc = "viewed"]
  /\ UNCHANGED <<now, event_cache, device_configs, configs_lock, pc, frame,
                 log, last_cache_op, config_files, reload, observed, probe,
                 rival, health>>

\* "with cache_lock:" of clear_cache (line 295), by a request that arrives
\* now or has been waiting.
ClearAcquire ==
  /\ admin.pc \in {"idle", "clear_call"}
  /\ cache_lock = 0
  /\ cache_lock' = Admin
  /\ admin' = [NoAdmin EXCEPT !.pc = "clear_size"]
  /\ UNCHANGED <<now, event_cache, device_configs, configs_lock, pc, frame,
                 log, last_cache_op, config_files, reload, observed, probe,
                 rival, health>>

\* Line 296: size = len(event_cache).
ClearSize ==
  /\ admin.pc = "clear_size"
  /\ admin' = [admin EXCEPT !.pc = "clear_empty",
                            !.size = Cardinality(DOMAIN event_cache)]
  /\ UNCHANGED <<now, event_cache, cache_lock, device_configs, configs_lock,
                 pc, frame, log, last_cache_op, config_files, reload, observed,
                 probe, rival, health>>

\* Line 297 and the end of "with cache_lock:".
ClearEmpty(history) ==
  /\ admin.pc = "clear_empty"
  /\ event_cache' = cleared(event_cache)
  /\ cache_lock' = 0
  /\ admin' = [admin EXCEPT !.pc = "cleared"]
  /\ last_cache_op' = IF "ops" \in history THEN [NoOp EXCEPT !.op = "clear"]
                      ELSE last_cache_op
  /\ UNCHANGED <<now, device_configs, configs_lock, pc, frame, log,
                 config_files, reload, observed, probe, rival, health>>

\* The response of view_cache or clear_cache.
AdminReturn ==
  /\ admin.pc \in {"viewed", "cleared"}
  /\ admin' = NoAdmin
  /\ UNCHANGED <<now, event_cache, cache_lock, device_configs, configs_lock,
                 pc, frame, log, last_cache_op, config_files, reload, observed,
                 probe, rival, health>>

\* The events sent beside the cache endpoints: two fingerprints.
AdminPayloads == << EvCfg, EvAnon >>

\* The clock beside the cache endpoints takes the instants 0..MaxSmall.
AdminTimes == 0..MaxSmall

NextAdmin ==
  \/ Handler(1, AdminPayloads, {"ops"})
  \/ Tick(AdminTimes)
  \/ ClearAcquire
  \/ ClearSize
  \/ ClearEmpty({"ops"})
  \/ AdminReturn

\* clear_cache beside an event handler.
SpecAdmin == Init /\ [][NextAdmin]_vars

NextView ==
  \/ Handler(1, AdminPayloads, {})
  \/ Tick(AdminTimes)
  \/ ViewAcquire
  \/ ViewEntry
  \/ ViewRelease
  \/ AdminReturn

\* view_cache beside an event handler.
SpecView == Init /\ [][NextView]_vars

\* The instants of the clock beside health_check: one of them is later
\* than the retention ceiling after the others.
HealthTimes == {0, RetentionCeiling + 1}

\* health_check takes no lock: its two reads fall anywhere between the
\* steps of an event handler, the deletions of clean_event_cache
\* included, and of a reload; the config directory holds its initial
\* content or no file.
NextHealth ==
  \/ HandlerByKey(1, AdminPayloads)
  \/ Tick(HealthTimes)
  \/ FsChangeTo({ConfigFiles, <<>>})
  \/ ReloadGlob
  \/ ReloadAcquire
  \/ ReloadFile
  \/ ReloadRelease
  \/ ReloadReturn
  \/ HealthCacheSize
  \/ HealthDevices

\* health_check beside an event handler and a reload.
SpecHealth == Init /\ [][NextHealth]_vars

(***************************************************************************)
(* The two locks: an event handler, a reload and the cache endpoints, under *)
(* fair scheduling.                                                        *)
(***************************************************************************)
\* The payloads: a configured event, an event of an unconfigured device,
\* one that fails in generate_event_key, one that fails in
\* execute_actions, and a payload without event.
LockPayloads ==
  << EvCfg, EvAnon, EvBad, EvDrive, [Subscription |-> "unrelated"] >>

\* The steps of the handler's request after its arrival.
HandlerRuns == GetConfigLock(1) \/ Steps(1, {})

\* The steps of a reload after its glob.
ReloadRuns == ReloadAcquire \/ ReloadFile \/ ReloadRelease \/ ReloadReturn

\* The steps of a cache endpoint request after its arrival.
AdminRuns ==
  /\ admin.pc # "idle"
  /\ \/ ViewAcquire
     \/ ViewEntry
     \/ ViewRelease
     \/ ClearAcquire
     \/ ClearSize
     \/ ClearEmpty({})
     \/ AdminReturn

NextLocks ==
  \/ ReceiveLive(1, LockPayloads)
  \/ GetConfigLock(1)
  \/ Steps(1, {})
  \/ ReloadGlob
  \/ ReloadAcquire
  \/ ReloadFile
  \/ ReloadRelease
  \/ ReloadReturn
  \/ ViewCall
  \/ ClearCall
  \/ ViewAcquire
  \/ ViewEntry
  \/ ViewRelease
  \/ ClearAcquire
  \/ ClearSize
  \/ ClearEmpty({})
  \/ AdminReturn

\* Every request that has arrived keeps being scheduled, and a request
\* waiting for a lock that is free again and again gets it.
SpecLocks ==
  /\ Init
  /\ [][NextLocks]_vars
  /\ SF_vars(HandlerRuns)
  /\ SF_vars(ReloadRuns)
  /\ SF_vars(AdminRuns)

(***************************************************************************)
(* The resolution functions and the fingerprint, applied to arguments      *)
(* drawn from bounded sets.                                                *)
(***************************************************************************)
\* The fields of an event, each absent or with one of a few values.
MessageIdChoices ==
  {EmptyDict, [MessageId |-> "A"], [MessageId |-> "A|B"], [MessageID |-> "A"]}

EventTypeChoices == {EmptyDict, [EventType |-> "C"], [EventType |-> "B|C"]}

DeviceIdChoices == {EmptyDict, [DeviceId |-> "dev1"]}

SeverityChoices == {EmptyDict, [Severity |-> "Critical"]}

OriginChoices ==
  {EmptyDict,
   [OriginOfCondition |-> EmptyDict],
   [OriginOfCondition |-> ("@odata.id" :> "/s/1")],
   [OriginOfCondition |-> [py_str |-> "/s/1"]]}

MessageArgsChoices ==
  {EmptyDict,
   [MessageArgs |-> <<>>],
   [MessageArgs |-> <<"a", "b">>],
   [MessageArgs |-> <<"b", "a">>],
   [MessageArgs |-> <<"a_b">>]}

\* The events whose fingerprint is computed.
KeyEvents ==
  {m @@ t @@ d @@ v @@ o @@ a :
     m \in MessageIdChoices, t \in EventTypeChoices, d \in DeviceIdChoices,
     v \in SeverityChoices, o \in OriginChoices, a \in MessageArgsChoices}

\* The events a fingerprint is compared with.
OtherKeyEvents ==
  {m @@ t @@ a :
     m \in MessageIdChoices, t \in EventTypeChoices, a \in MessageArgsChoices}

WindowChoices ==
  {EmptyDict} \cup {[DeduplicationTimeWindow |-> w] : w \in {-1, 0, 5}}

ActionsChoices ==
  {EmptyDict, [Actions |-> <<>>], [Actions |-> <<"LogChange">>]}

\* The events whose window and actions are resolved.
ResolveEvents ==
  {m @@ t @@ w @@ a :
     m \in {EmptyDict, [MessageId |-> "Alert.1.0"], [MessageID |-> "Alert.1.0"],
            [MessageId |-> "Other"]},
     t \in {EmptyDict, [EventType |-> "Alert"]},
     w \in WindowChoices, a \in ActionsChoices}

\* A device config whose mapping list has, before two mappings of
\* (Alert.1.0, Alert), one of another event type and one without
\* MessageId; the earlier of the two has no Actions.
CfgOrder ==
  [device_id |-> "dev3",
   default_deduplication_window |-> 0,
   events |-> << [MessageId |-> "Alert.1.0", EventType |-> "StatusChange",
                  Actions |-> <<"LogChange">>],
                 [EventType |-> "Alert", Actions |-> <<"LogUpdate">>],
                 [MessageId |-> "Alert.1.0", EventType |-> "Alert"],
                 [MessageId |-> "Alert.1.0", EventType |-> "Alert",
                  Actions |-> <<"ShutdownServer">>] >>]

\* The device_config arguments: None, an empty dict, a config without
\* default and mappings, and two with both.
DeviceConfigChoices ==
  {None, EmptyDict, [device_id |-> "dev2"], ConfigFiles[1].data, CfgOrder}

ProbeInputs ==
  {[stage |-> "input", kind |-> "resolve", event |-> e, device_config |-> c] :
     e \in ResolveEvents, c \in DeviceConfigChoices}
  \cup
  {[stage |-> "input", kind |-> "key", event |-> e, other |-> o] :
     e \in KeyEvents, o \in OtherKeyEvents}

InitPure ==
  /\ now = 0
  /\ event_cache = EmptyDict
  /\ cache_lock = 0
  /\ device_configs = load_device_configs(ConfigFiles)
  /\ configs_lock = 0
  /\ pc = [h \in Handlers |-> "idle"]
  /\ frame = [h \in Handlers |-> NoFrame]
  /\ log = <<>>
  /\ last_cache_op = NoOp
  /\ config_files = ConfigFiles
  /\ reload = NoReload
  /\ observed = NoRead
  /\ probe \in ProbeInputs
  /\ admin = NoAdmin
  /\ rival = NoRival
  /\ health = NoHealth

\* get_deduplication_window and get_event_actions applied to the
\* arguments.
Resolve ==
  /\ probe.stage = "input" /\ probe.kind = "resolve"
  /\ probe' = [stage |-> "done", kind |-> "resolve",
               event |-> probe.event,
               device_config |-> probe.device_config,
               dedup_window |->
                 get_deduplication_window(probe.event, probe.device_config),
               actions |-> get_event_actions(probe.event, probe.device_config)]
  /\ UNCHANGED <<admin, rival, health>>
  /\ UNCHANGED <<now, event_cache, cache_lock, device_configs, configs_lock,
                 pc, frame, log, last_cache_op, config_files, reload, observed>>

\* generate_event_key applied to the two events; raised records the
\* exception of the first.
Fingerprint ==
  /\ probe.stage = "input" /\ probe.kind = "key"
  /\ probe' = [stage |-> "done", kind |-> "key",
               event |-> probe.event,
               other |-> probe.other,
               raised |-> key_raises(probe.event),
               event_key |-> IF key_raises(probe.event) THEN ""
                             ELSE generate_event_key(probe.event),
               other_key |-> generate_event_key(probe.other)]
  /\ UNCHANGED <<admin, rival, health>>
  /\ UNCHANGED <<now, event_cache, cache_lock, device_configs, configs_lock,
                 pc, frame, log, last_cache_op, config_files, reload, observed>>

NextPure == Resolve \/ Fingerprint

SpecPure == InitPure /\ [][NextPure]_vars

(***************************************************************************)
(* One request served alone: an event is delivered as a single payload or *)
(* as a batch of one, step by step; receive_event as a function of the     *)
(* payload, the cache, the reads of the clock and the device table says    *)
(* what the delivery in the other form does.                               *)
(***************************************************************************)
\* process_event, lines 200-235, on the outcome so far: the cache, what
\* has been handed to the executor, whether an exception was raised, and
\* the reads of the clock still to come.  is_duplicate_event reads the
\* clock (line 100) when the window is positive and generate_event_key
\* has returned.
process_event(st, event, configs) ==
  LET device_config == Get(configs, Get(event, "DeviceId", "Unknown"), None)
      dedup_window == get_deduplication_window(event, device_config)
      actions == get_event_actions(event, device_config)
      off == window_disabled(dedup_window)
  IN  IF ~off /\ key_raises(event)
      THEN [st EXCEPT !.raised = TRUE]
      ELSE IF off
      THEN [st EXCEPT
              !.executed = @ \o dispatch(FALSE, actions, event),
              !.raised = execute_raises(actions, event)]
      ELSE LET event_key == generate_event_key(event)
               current_time == Head(st.clock)
               dup == is_duplicate(st.event_cache, event_key, current_time,
                                   dedup_window)
           IN  [event_cache |->
                  record_event(st.event_cache, event_key, current_time,
                               dedup_window, event),
                executed |-> st.executed \o dispatch(dup, actions, event),
                raised |-> ~dup /\ execute_raises(actions, event),
                clock |-> Tail(st.clock)]

\* receive_event, lines 188-192: the loop over the events; an exception
\* ends it.
RECURSIVE process_events(_, _, _)
process_events(st, events, configs) ==
  IF events = <<>> \/ st.raised THEN st
  ELSE process_events(process_event(st, Head(events), configs),
                      Tail(events), configs)

\* receive_event, lines 188-196: the events of the payload, then
\* clean_event_cache, which reads the clock again (line 120), unless an
\* exception has ended the request.  clock is what datetime.now() gives
\* at its successive reads.
receive_event(payload, cache, clock, configs) ==
  LET st == process_events([event_cache |-> cache, executed |-> <<>>,
                            raised |-> FALSE, clock |-> clock],
                           events_of(payload), configs)
  IN  [event_cache |-> IF st.raised THEN st.event_cache
                       ELSE clean_event_cache(st.event_cache, Head(st.clock)),
       executed |-> st.executed,
       raised |-> st.raised]

\* The events delivered in both forms: every subset of MessageId,
\* EventType, DeviceId, window and actions present.
DeliverEvents ==
  {m @@ t @@ d @@ w @@ a :
     m \in {EmptyDict, [MessageId |-> "Alert.1.0"]},
     t \in {EmptyDict, [EventType |-> "Alert"]},
     d \in {EmptyDict, [DeviceId |-> "dev1"]},
     w \in {EmptyDict, [DeduplicationTimeWindow |-> 0],
            [DeduplicationTimeWindow |-> 2]},
     a \in {EmptyDict, [Actions |-> <<"LogError">>]}}

\* The cache before the delivery: empty, or holding the entry an earlier
\* occurrence of the event's fingerprint left at time 0.
DeliverCaches(event) ==
  {EmptyDict,
   Put(EmptyDict, generate_event_key(event), new_entry(0, event))}

\* receive_event, lines 188-192: the payload that carries the event in
\* the given form.
as_payload(event, form) ==
  IF form = "batch" THEN [Events |-> <<event>>] ELSE event

\* The request to deliver: the event, its form, and the cache before the
\* delivery.
InitDeliver ==
  /\ now = 0
  /\ probe \in {[stage |-> "input", kind |-> "deliver", event |-> e,
                 form |-> f, cache |-> c] :
                  e \in DeliverEvents, f \in {"single", "batch"},
                  c \in UNION {DeliverCaches(x) : x \in DeliverEvents}}
  /\ probe.cache \in DeliverCaches(probe.event)
  /\ event_cache = probe.cache
  /\ cache_lock = 0
  /\ device_configs = load_device_configs(ConfigFiles)
  /\ configs_lock = 0
  /\ pc = [h \in Handlers |-> "idle"]
  /\ frame = [h \in Handlers |-> NoFrame]
  /\ log = <<>>
  /\ last_cache_op = NoOp
  /\ config_files = ConfigFiles
  /\ reload = NoReload
  /\ observed = NoRead
  /\ admin = NoAdmin
  /\ rival = NoRival
  /\ health = NoHealth

\* receive_event, lines 184-194: the payload of the delivery arrives, once.
DeliverReceive ==
  /\ probe.stage = "input" /\ probe.kind = "deliver"
  /\ pc[1] = "idle"
  /\ last_cache_op = NoOp
  /\ Receive(1, <<as_payload(probe.event, probe.form)>>)

\* The request is served step by step, as every other request: the clock
\* moves between its steps, and it is read at line 100 and at line 120.
NextDeliver ==
  \/ DeliverReceive
  \/ Steps(1, {"log", "ops"})
  \/ Tick(Times)

SpecDeliver == InitDeliver /\ [][NextDeliver]_vars

(***************************************************************************)
(* Properties.                                                             *)
(***************************************************************************)
\* Handler h executes the critical section of is_duplicate_event in this
\* step.
ChecksNow(h) == pc[h] = "check_and_record" /\ pc'[h] = "classified"

\* Handler h executes the critical section of clean_event_cache in this
\* step.
CleansNow(h) == pc[h] = "clean_cache" /\ pc'[h] = "idle"

\* Both handlers have classified an occurrence of the same fingerprint
\* with a positive window, each found the fingerprint absent when it
\* captured its time, and one captured its time while the other was
\* between its time capture and its critical section.
Race ==
  /\ pc[1] = "classified" /\ pc[2] = "classified"
  /\ frame[1].event_key = frame[2].event_key
  /\ frame[1].event_key # ""
  /\ frame[1].dedup_window > 0 /\ frame[2].dedup_window > 0
  /\ frame[1].first /\ frame[2].first
  /\ frame[1].overlap \/ frame[2].overlap

Beaten(s) ==
  /\ pc[s] \in {"cache_lock", "check_and_record"}
  /\ frame[s].inserted_at # -1

\* The entry the concurrent first occurrence inserted is in the cache as
\* it was written.
AsInserted(s) ==
  /\ frame[s].event_key \in DOMAIN event_cache
  /\ event_cache[frame[s].event_key].timestamp = frame[s].inserted_at
  /\ event_cache[frame[s].event_key].count = 1

\* Handler h inserts the entry while a concurrent first occurrence of the
\* same fingerprint waits for the lock.
InsertsFirst(h) ==
  /\ ChecksNow(h)
  /\ frame[h].first
  /\ frame[h].event_key \notin DOMAIN event_cache
  /\ \E o \in Handlers \ {h} :
       /\ pc[o] = "cache_lock"
       /\ frame[o].first
       /\ frame[o].event_key = frame[h].event_key

C2_DuplicateKeepsAnchor ==
  [][\A h \in Handlers :
       LET f == frame[h] IN
       ( /\ ChecksNow(h)
         /\ f.event_key \in DOMAIN event_cache
         /\ f.dedup_window > 0
         /\ f.current_time - event_cache[f.event_key].timestamp < f.dedup_window )
       => /\ frame'[h].is_dup
          /\ event_cache'[f.event_key].count
               = event_cache[f.event_key].count + 1
          /\ event_cache'[f.event_key].timestamp
               = event_cache[f.event_key].timestamp
          /\ event_cache'[f.event_key].device_id
               = event_cache[f.event_key].device_id]_vars

\* A duplicate one second after the anchor, inside the window of 2.
C2_Witness ==
  \E h \in Handlers :
    /\ pc[h] = "classified"
    /\ frame[h].is_dup
    /\ frame[h].dedup_window = 2
    /\ frame[h].event_key \in DOMAIN event_cache
    /\ event_cache[frame[h].event_key].count = 2
    /\ frame[h].current_time = event_cache[frame[h].event_key].timestamp + 1

\* C3: an occurrence with window W > 0 at time t2 of a fingerprint whose
\* entry has anchor t0 with t2 - t0 >= W (the boundary included) is
\* classified not-duplicate and the entry becomes timestamp t2, count 1.
C3_ElapsedWindowReanchors ==
  [][\A h \in Handlers :
       LET f == frame[h] IN
       ( /\ ChecksNow(h)
         /\ f.event_key \in DOMAIN event_cache
         /\ f.dedup_window > 0
         /\ f.current_time - event_cache[f.event_key].timestamp >= f.dedup_window )
       => /\ ~frame'[h].is_dup
          /\ event_cache'[f.event_key].timestamp = f.current_time
          /\ event_cache'[f.event_key].count = 1]_vars

\* A re-anchoring at the boundary: the entry was found, the occurrence
\* came at time 2 with window 2 (so the anchor found was 0), and the
\* entry is now anchored at 2 with count 1.
C3_Witness ==
  \E h \in Handlers :
    /\ pc[h] = "classified"
    /\ ~frame[h].is_dup /\ ~frame[h].absent
    /\ frame[h].dedup_window = 2 /\ frame[h].current_time = 2
    /\ frame[h].event_key \in DOMAIN event_cache
    /\ event_cache[frame[h].event_key].timestamp = 2
    /\ event_cache[frame[h].event_key].count = 1

\* C4: an occurrence with window W > 0 of a fingerprint absent from the
\* cache is classified not-duplicate and inserts exactly one entry, with
\* the caller's captured time, count 1 and the event's device id
\* ("Unknown" without one); the other entries are untouched.
C4_AbsentInserts ==
  [][\A h \in Handlers :
       LET f == frame[h] IN
       ( /\ ChecksNow(h)
         /\ f.event_key \notin DOMAIN event_cache
         /\ f.dedup_window > 0 )
       => /\ ~frame'[h].is_dup
          /\ DOMAIN event_cache' = DOMAIN event_cache \cup {f.event_key}
          /\ event_cache'[f.event_key] =
               [timestamp |-> f.current_time,
                count |-> 1,
                device_id |-> IF "DeviceId" \in DOMAIN f.event
                              THEN f.event["DeviceId"] ELSE "Unknown"]
          /\ \A k \in DOMAIN event_cache : event_cache'[k] = event_cache[k]]_vars

\* An event without DeviceId was inserted beside another entry, under
\* device id "Unknown".
C4_Witness ==
  \E h \in Handlers :
    /\ pc[h] = "classified"
    /\ frame[h].absent /\ ~frame[h].is_dup
    /\ "DeviceId" \notin DOMAIN frame[h].event
    /\ Cardinality(DOMAIN event_cache) = 2
    /\ event_cache[frame[h].event_key] =
         [timestamp |-> frame[h].current_time, count |-> 1,
          device_id |-> "Unknown"]

\* C5: with a resolved window <= 0 is_duplicate_event returns
\* not-duplicate at once and leaves the cache unchanged; it never reaches
\* the lock or the critical section.
C5_DisabledWindowLeavesCache ==
  [][\A h \in Handlers :
       /\ ( /\ pc[h] = "is_duplicate_event"
            /\ frame[h].dedup_window <= 0
            /\ pc'[h] # pc[h] )
          => /\ pc'[h] = "classified"
             /\ ~frame'[h].is_dup
             /\ event_cache' = event_cache
       /\ pc'[h] \in {"cache_lock", "check_and_record"}
          => frame'[h].dedup_window > 0]_vars

\* An event with window <= 0 was classified not-duplicate while an entry
\* of its fingerprint exists.
C5_Witness ==
  \E h \in Handlers :
    /\ pc[h] = "classified"
    /\ frame[h].dedup_window <= 0
    /\ ~frame[h].is_dup
    /\ generate_event_key(frame[h].event) \in DOMAIN event_cache

\* The last expiry of key k before position i of the log (0: none).
LastExpiry(k, i) ==
  LET E == {j \in 1..(i - 1) : log[j].kind = "expired" /\ k \in log[j].keys}
  IN  IF E = {} THEN 0 ELSE CHOOSE j \in E : \A x \in E : x <= j

\* The classifications of log[i]'s fingerprint before i and since its
\* last expiry.
Prior(i) ==
  {j \in checks(log) :
     /\ LastExpiry(log[i].key, i) < j /\ j < i
     /\ log[j].key = log[i].key}

\* C6: in a sequence of occurrences of one fingerprint with a constant
\* window W > 0 (no expiry in between), an occurrence is not-duplicate
\* exactly when it is the first or comes at least W after the most recent
\* not-duplicate occurrence.
C6_AnchoredWindow ==
  \A i \in checks(log) :
    LET fresh == {j \in Prior(i) : ~log[j].dup}
        anchor == CHOOSE j \in fresh : \A x \in fresh : x <= j
    IN  (\A j \in Prior(i) : log[j].window = log[i].window)
        => ( ~log[i].dup <=>
               \/ Prior(i) = {}
               \/ /\ fresh # {}
                  /\ log[i].time - log[anchor].time >= log[i].window )

\* The scenario: window 5, occurrences at 0, 2 and 6 give not-duplicate,
\* duplicate with count 2, not-duplicate with count 1 (6 is less than 5
\* after the most recent occurrence, and 5 or more after the anchor).
C6_Witness ==
  /\ Len(log) = 3
  /\ \A i \in 1..3 : log[i].kind = "check" /\ log[i].window = 5
  /\ log[1].time = 0 /\ ~log[1].dup /\ log[1].count = 1
  /\ log[2].time = 2 /\ log[2].dup /\ log[2].count = 2
  /\ log[3].time = 6 /\ ~log[3].dup /\ log[3].count = 1

\* C7 as stated: once an occurrence of a fingerprint with window W is
\* classified not-duplicate at time t, every later occurrence with the
\* same window at a time t' with t' - t < W is classified duplicate,
\* whatever expiry runs in between and for every W.
C7_SuppressedWithinWindow ==
  \A i, j \in checks(log) :
    ( /\ i < j
      /\ log[i].key = log[j].key
      /\ ~log[i].dup
      /\ log[j].window = log[i].window
      /\ log[j].time >= log[i].time
      /\ log[j].time - log[i].time < log[i].window )
    => log[j].dup

\* C8: clean_event_cache removes exactly the entries whose age (its
\* captured time minus the entry's timestamp) is above 3600 seconds and
\* leaves every other entry as it is.
C8_ExpiresExactlyOld ==
  [][\A h \in Handlers :
       CleansNow(h) =>
         /\ DOMAIN event_cache' \subseteq DOMAIN event_cache
         /\ \A k \in DOMAIN event_cache :
              IF frame[h].current_time - event_cache[k].timestamp > 3600
              THEN k \notin DOMAIN event_cache'
              ELSE /\ k \in DOMAIN event_cache'
                   /\ event_cache'[k] = event_cache[k]]_vars

\* A clean removed an entry and kept one aged exactly 3600 seconds.
C8_Witness ==
  /\ last_cache_op.op = "clean"
  /\ last_cache_op.removed # {}
  /\ \E k \in DOMAIN event_cache :
       last_cache_op.time - event_cache[k].timestamp = 3600

\* C9 as stated: a clean_event_cache that follows another with no cache
\* write in between leaves the cache as the first left it.
C9_SecondCleanChangesNothing ==
  [][\A h \in Handlers :
       ( /\ CleansNow(h)
         /\ last_cache_op.op \in {"clean", "clean_again"} )
       => event_cache' = event_cache]_vars

\* C9 amended: a clean_event_cache that follows another with no cache
\* write in between, and whose captured time is not later than the
\* first's, leaves the cache as the first left it.
C9_SecondCleanSameTimeChangesNothing ==
  [][\A h \in Handlers :
       ( /\ CleansNow(h)
         /\ last_cache_op.op \in {"clean", "clean_again"}
         /\ frame[h].current_time <= last_cache_op.time )
       => event_cache' = event_cache]_vars

\* Two cleans in succession, the second at a captured time not later than
\* the first's, with an entry aged exactly 3600 seconds kept by both.
C9_Witness ==
  /\ last_cache_op.op = "clean_again"
  /\ last_cache_op.settled
  /\ DOMAIN event_cache # {}
  /\ \E k \in DOMAIN event_cache :
       last_cache_op.time - event_cache[k].timestamp = 3600

\* C10: for an event classified duplicate process_event dispatches none
\* of the resolved actions and raises no error; actions are dispatched
\* only for events classified not-duplicate.
C10_DuplicateDispatchesNothing ==
  [][\A h \in Handlers :
       /\ (pc[h] = "classified" /\ frame[h].is_dup /\ pc'[h] # pc[h])
          => /\ frame'[h].executed = <<>>
             /\ pc'[h] = route(frame[h].pending)
       /\ frame'[h].executed # <<>> => ~frame'[h].is_dup]_vars

\* A duplicate with resolved actions was skipped: nothing was dispatched.
C10_Witness ==
  \E h \in Handlers :
    /\ pc[h] \in {"process_event", "clean_event_cache"}
    /\ frame[h].is_dup
    /\ frame[h].actions # <<>>
    /\ frame[h].executed = <<>>

\* The names execute_actions handed to the executor, in order.
names(executed) == [i \in DOMAIN executed |-> executed[i].action]

\* C11 as stated: for an event classified not-duplicate every name of the
\* resolved action list is handed to the executor, once per list position
\* and in list order (an unrecognized name does not stop the later ones).
C11_EveryActionDispatchedInOrder ==
  [][\A h \in Handlers :
       (pc[h] = "classified" /\ ~frame[h].is_dup /\ pc'[h] # pc[h])
       => names(frame'[h].executed) = frame[h].actions]_vars

\* C12 as stated: a failure while one event of a batch is processed does
\* not end the request while later events of the batch are pending.
C12_FailureSparesSiblings ==
  [][\A h \in Handlers :
       (pc[h] \in {"is_duplicate_event", "classified"}
          /\ frame[h].pending # <<>>)
       => pc'[h] # "failed"]_vars

\* The resolution functions have been applied to the arguments.
Resolved == probe.stage = "done" /\ probe.kind = "resolve"

\* C13: get_deduplication_window returns the event's explicit
\* DeduplicationTimeWindow whenever the field is present (0 included,
\* whatever the device default); otherwise the device config's
\* default_deduplication_window when there is a config with that field;
\* otherwise 0.
C13_ExplicitWindowWins ==
  Resolved =>
    LET e == probe.event
        c == probe.device_config
        has_default == /\ c # None /\ c # EmptyDict
                       /\ "default_deduplication_window" \in DOMAIN c
    IN  /\ "DeduplicationTimeWindow" \in DOMAIN e
           => probe.dedup_window = e["DeduplicationTimeWindow"]
        /\ ("DeduplicationTimeWindow" \notin DOMAIN e /\ has_default)
           => probe.dedup_window = c["default_deduplication_window"]
        /\ ("DeduplicationTimeWindow" \notin DOMAIN e /\ ~has_default)
           => probe.dedup_window = 0

\* An explicit window of 0 was returned although the device default is 2.
C13_Witness ==
  /\ Resolved
  /\ "DeduplicationTimeWindow" \in DOMAIN probe.event
  /\ probe.event["DeduplicationTimeWindow"] = 0
  /\ probe.device_config = ConfigFiles[1].data
  /\ probe.dedup_window = 0

\* The message id get_event_actions looks up: MessageId, else MessageID,
\* else the empty string.
LookupId(e) ==
  IF "MessageId" \in DOMAIN e THEN e["MessageId"]
  ELSE IF "MessageID" \in DOMAIN e THEN e["MessageID"]
  ELSE ""

\* The positions of the mappings of config c whose (MessageId, EventType)
\* pair is the pair of event e.
Matching(e, c) ==
  IF c = None \/ c = EmptyDict \/ "events" \notin DOMAIN c THEN {}
  ELSE {i \in DOMAIN c["events"] :
          LET m == c["events"][i] IN
          /\ "MessageId" \in DOMAIN m /\ m["MessageId"] = LookupId(e)
          /\ "EventType" \in DOMAIN m
          /\ m["EventType"] = (IF "EventType" \in DOMAIN e
                               THEN e["EventType"] ELSE "")}

\* The action list of the mapping at position i of config c.
MappedActions(c, i) ==
  IF "Actions" \in DOMAIN c["events"][i] THEN c["events"][i]["Actions"]
  ELSE <<>>

\* C14: get_event_actions returns the event's explicit Actions whenever
\* the field is present (an empty list included); otherwise the action
\* list of a mapping of the device config whose (MessageId, EventType)
\* pair equals the event's; otherwise, and without a device config, the
\* empty list.
C14_ExplicitActionsElseMapping ==
  Resolved =>
    LET e == probe.event
        c == probe.device_config
    IN  /\ "Actions" \in DOMAIN e => probe.actions = e["Actions"]
        /\ ("Actions" \notin DOMAIN e /\ Matching(e, c) # {})
           => \E i \in Matching(e, c) : probe.actions = MappedActions(c, i)
        /\ ("Actions" \notin DOMAIN e /\ Matching(e, c) = {})
           => probe.actions = <<>>

\* An event without Actions got the list of a matching mapping of its
\* device config.
C14_Witness ==
  /\ Resolved
  /\ "Actions" \notin DOMAIN probe.event
  /\ probe.device_config = ConfigFiles[1].data
  /\ Matching(probe.event, probe.device_config) # {}
  /\ probe.actions = <<"NotifyAdmin", "LogError">>

\* C15: when several mappings of the device config have the event's
\* (MessageId, EventType) pair, get_event_actions returns the action list
\* of the earliest one for an event without explicit Actions, the empty
\* list when that mapping has no Actions field.
C15_EarliestMappingGoverns ==
  Resolved =>
    LET e == probe.event
        c == probe.device_config
        M == Matching(e, c)
    IN  ("Actions" \notin DOMAIN e /\ M # {})
        => probe.actions =
             MappedActions(c, CHOOSE i \in M : \A j \in M : i <= j)

\* Two mappings match; the earlier has no Actions field, the later has
\* one, and the result is the empty list.
C15_Witness ==
  /\ Resolved
  /\ "Actions" \notin DOMAIN probe.event
  /\ probe.device_config = CfgOrder
  /\ Matching(probe.event, probe.device_config) = {3, 4}
  /\ probe.actions = <<>>

\* generate_event_key has been applied to the two events.
Keyed == probe.stage = "done" /\ probe.kind = "key"

\* Field f of event e, "Unknown" when absent.
OrUnknown(e, f) == IF f \in DOMAIN e THEN e[f] ELSE "Unknown"

\* The message id of event e: MessageId, else MessageID, else "Unknown".
KeyId(e) ==
  IF "MessageId" \in DOMAIN e THEN e["MessageId"] ELSE OrUnknown(e, "MessageID")

\* The origin locator of event e, whose OriginOfCondition is absent or a
\* dict.
KeyOrigin(e) ==
  IF "OriginOfCondition" \in DOMAIN e
  THEN OrUnknown(e["OriginOfCondition"], "@odata.id")
  ELSE "Unknown"

\* The message arguments of event e, none when absent.
KeyArgs(e) == IF "MessageArgs" \in DOMAIN e THEN e["MessageArgs"] ELSE <<>>

\* Each field of event e is absent or of the shape the receiver reads.
WellShaped(e) ==
  "OriginOfCondition" \in DOMAIN e => IsDict(e["OriginOfCondition"])

\* C16: for an event with any subset of its fields absent
\* generate_event_key does not raise, leaves the cache alone, and returns
\* the five components message id, event type, device id, severity and
\* origin locator, "Unknown" for each absent one, joined by "|"; absent or
\* empty MessageArgs add no component.
C16_KeyTotalWithDefaults ==
  [][(probe.stage = "input" /\ probe.kind = "key" /\ probe'.stage = "done"
        /\ WellShaped(probe.event))
     => LET e == probe.event
            five == KeyId(e) \o "|" \o OrUnknown(e, "EventType") \o "|"
                    \o OrUnknown(e, "DeviceId") \o "|"
                    \o OrUnknown(e, "Severity") \o "|" \o KeyOrigin(e)
        IN  /\ ~probe'.raised
            /\ event_cache' = event_cache
            /\ probe'.event_key =
                  IF KeyArgs(e) = <<>> THEN five
                  ELSE five \o "|" \o Join(KeyArgs(e), "_")]_vars

\* The fingerprint of the event without any field and of one with an
\* empty MessageArgs and an OriginOfCondition without locator.
C16_Witness ==
  /\ Keyed
  /\ ~probe.raised
  /\ probe.other = EmptyDict
  /\ probe.other_key = "Unknown|Unknown|Unknown|Unknown|Unknown"
  /\ probe.event = [MessageArgs |-> <<>>, OriginOfCondition |-> EmptyDict]
  /\ probe.event_key = "Unknown|Unknown|Unknown|Unknown|Unknown"

\* C17 as stated: two events have equal fingerprints exactly when they
\* agree on message id, event type, device id, severity, origin locator
\* and the ordered sequence of message arguments (absent fields taken as
\* their defaults).
C17_EqualKeyIffSameFields ==
  (Keyed /\ ~probe.raised) =>
    LET e == probe.event
        o == probe.other
    IN  probe.event_key = probe.other_key
        <=> /\ KeyId(e) = KeyId(o)
            /\ OrUnknown(e, "EventType") = OrUnknown(o, "EventType")
            /\ OrUnknown(e, "DeviceId") = OrUnknown(o, "DeviceId")
            /\ OrUnknown(e, "Severity") = OrUnknown(o, "Severity")
            /\ KeyOrigin(e) = KeyOrigin(o)
            /\ KeyArgs(e) = KeyArgs(o)

\* The device ids of the valid sources the load has read.
ValidIds == {reload.valid[i].device_id : i \in DOMAIN reload.valid}

\* The data of the last valid source of device d the load has read.
LastValid(d) ==
  LET I == {i \in DOMAIN reload.valid : reload.valid[i].device_id = d}
  IN  reload.valid[CHOOSE i \in I : \A j \in I : j <= i]

\* The restriction of a table to the devices of D.
Only(table, D) == [d \in DOMAIN table \cap D |-> table[d]]

\* C18: when a load has completed the device table holds exactly the
\* devices of the valid sources that load read and nothing of the table
\* before it; after a load without valid source it is empty, and
\* list_devices and get_device_config then read exactly that table.
C18_ReloadReplacesWholesale ==
  reload.pc = "done" =>
    /\ DOMAIN device_configs = ValidIds
    /\ \A d \in ValidIds : device_configs[d] = LastValid(d)
    /\ reload.valid = <<>> => device_configs = EmptyDict
    /\ (observed.phase = "done" /\ observed.reader = "list_devices")
       => observed.table = device_configs
    /\ (observed.phase = "done" /\ observed.reader = "get_device_config")
       => \E d \in {"dev1", "dev2"} :
            observed.table = Only(device_configs, {d})

\* A load without valid source has completed on a table that had
\* entries, and list_devices then returned the empty mapping.
C18_Witness ==
  /\ reload.pc = "done"
  /\ reload.before # EmptyDict
  /\ reload.valid = <<>>
  /\ reload.skipped
  /\ observed.reader = "list_devices" /\ observed.phase = "done"
  /\ observed.table = EmptyDict /\ observed.count = 0

\* C19: a source that does not parse or has no device id is skipped and
\* the load goes on: every valid source read, before or after it, is in
\* the table, and the load ends normally.
C19_BadSourceSkipped ==
  /\ reload.pc \in {"idle", "lock", "load", "done"}
  /\ reload.pc \in {"load", "done"}
     => /\ \A i \in DOMAIN reload.valid :
             reload.valid[i].device_id \in DOMAIN device_configs
        /\ DOMAIN device_configs \subseteq {"dev1", "dev2"}

\* A load has completed that read a valid source, then one that does not
\* parse, then another valid source: both devices are in the table.
C19_Witness ==
  /\ reload.pc = "done"
  /\ reload.skipped
  /\ reload.valid = <<Dev2, ConfigFiles[1].data>>
  /\ DOMAIN device_configs = {"dev1", "dev2"}

\* C20 as stated: a read of the device table that takes place while a
\* reload is in progress gives the complete table of before the reload
\* or the complete table the reload ends with.
C20_ReadsSeeOldOrNewTable ==
  (reload.pc = "done" /\ observed.phase = "load") =>
    /\ observed.reader = "health_check"
       => observed.count \in {Cardinality(DOMAIN reload.before),
                              Cardinality(DOMAIN device_configs)}
    /\ observed.reader = "list_devices"
       => observed.table \in {reload.before, device_configs}
    /\ observed.reader = "get_device_config"
       => \E d \in {"dev1", "dev2"} :
            observed.table \in {Only(reload.before, {d}),
                                Only(device_configs, {d})}

\* C21 as stated: no source is read or parsed while the config lock is
\* held; load_device_configs takes the lock only to swap the prepared
\* table in.
C21_NoSourceReadUnderLock ==
  [][(reload.pc = "load" /\ reload'.config_files # reload.config_files)
     => configs_lock = 0]_vars

(***************************************************************************)
(* The cache endpoints.                                                    *)
(***************************************************************************)
\* health_check reads the size of the cache in this step.
HealthReads == health.pc = "idle" /\ health'.pc = "devices"

\* C22 as stated: every access to the cache, the cache-size read of
\* health_check included, is made under the cache lock, so it never falls
\* inside the critical section of a handler or of another endpoint: when
\* health_check reads the size, nobody else holds cache_lock.
C22_CacheReadUnderLock ==
  [][HealthReads => cache_lock = 0]_vars

\* clear_cache executes event_cache.clear() in this step.
ClearsNow == admin.pc = "clear_empty" /\ admin'.pc = "cleared"

\* C23: clear_cache leaves the cache empty and reports the number of
\* entries the cache held just before the emptying; between the size read
\* and the emptying the cache does not change; and an occurrence with a
\* positive window whose check is the first cache operation after the
\* clear is classified not-duplicate and recorded with count 1.
C23_ClearEmptiesAndReportsPriorSize ==
  [][/\ ClearsNow =>
          /\ event_cache' = EmptyDict
          /\ admin'.size = Cardinality(DOMAIN event_cache)
     /\ (admin.pc = "clear_empty" /\ ~ClearsNow) =>
          event_cache' = event_cache
     /\ (ChecksNow(1) /\ last_cache_op.op = "clear"
            /\ frame[1].dedup_window > 0) =>
          /\ ~frame'[1].is_dup
          /\ event_cache'[frame[1].event_key].count = 1]_vars

\* A clear has emptied a cache of at least one entry between the time
\* capture of an occurrence whose fingerprint was cached and its check: the
\* occurrence was classified not-duplicate.
C23_Witness ==
  /\ admin.pc = "cleared" /\ admin.size >= 1
  /\ pc[1] = "classified"
  /\ frame[1].dedup_window > 0
  /\ ~frame[1].first /\ frame[1].absent
  /\ ~frame[1].is_dup
  /\ event_cache[frame[1].event_key].count = 1

\* C24 as stated: the entries view_cache returns are all taken from one
\* instant: there is one instant t such that every returned age is t minus
\* the returned timestamp.
C24_ViewFromOneInstant ==
  admin.pc = "viewed" =>
    \E t \in AdminTimes :
      \A k \in DOMAIN admin.cache_view :
        admin.cache_view[k].age_seconds = t - admin.cache_view[k].timestamp

(***************************************************************************)
(* Events of unconfigured devices.                                         *)
(***************************************************************************)
\* Handler h is processing an event without DeviceId for which
\* get_device_config returned None.
NoDevice(h) ==
  /\ pc[h] \in {"is_duplicate_event", "cache_lock", "check_and_record",
                "classified"}
  /\ "DeviceId" \notin DOMAIN frame[h].event
  /\ frame[h].device_config = None

\* C25 as stated: an event without DeviceId and without a matching device
\* config is processed to the end without error: its handler never fails.
C25_UnknownDeviceCompletes ==
  [][NoDevice(1) => pc'[1] # "failed"]_vars

(***************************************************************************)
(* The count a reload returns.                                             *)
(***************************************************************************)
\* C26 as stated: the count load_device_configs returns is the number of
\* devices of the table that call installed, also when another reload runs
\* concurrently.
C26_CountIsInstalledTable ==
  observed.reader = "reload_configs" =>
    observed.count = Cardinality(DOMAIN observed.table)

(***************************************************************************)
(* The count of an entry.                                                  *)
(***************************************************************************)
\* Handler h's event is classified in this step, with or without the
\* critical section.
ClassifiesNow(h) ==
  /\ pc[h] \in {"is_duplicate_event", "check_and_record"}
  /\ pc'[h] = "classified"

\* The last logged not-duplicate classification of fingerprint k (0: none).
Anchor(k) ==
  LET F == {j \in checks(log) : log[j].key = k /\ ~log[j].dup}
  IN  IF F = {} THEN 0 ELSE CHOOSE j \in F : \A x \in F : x <= j

\* The logged duplicate classifications of k after position i.
DupsSince(k, i) ==
  {j \in checks(log) : j > i /\ log[j].key = k /\ log[j].dup}

\* Every entry has a count of at least 1, its timestamp is the time of
\* the last not-duplicate classification that took the lock, and its count
\* is 1 plus the duplicates classified since.
CountIsOnePlusDuplicates ==
  \A k \in DOMAIN event_cache :
    /\ event_cache[k].count >= 1
    /\ Anchor(k) > 0
    /\ event_cache[k].timestamp = log[Anchor(k)].time
    /\ event_cache[k].count = 1 + Cardinality(DupsSince(k, Anchor(k)))

\* C27 as stated: every entry's count is at least 1 and equals 1 plus the
\* number of duplicates classified since its anchor was set, and the count
\* restarts at 1 on every not-duplicate classification.
C27_CountRestartsOnEveryFresh ==
  [][/\ CountIsOnePlusDuplicates'
     /\ (ClassifiesNow(1) /\ ~frame'[1].is_dup
          /\ generate_event_key(frame[1].event) \in DOMAIN event_cache')
        => event_cache'[generate_event_key(frame[1].event)].count = 1]_vars

\* C27, amended: every entry's count is at least 1 and equals 1 plus the
\* number of duplicates classified since its anchor was set; the count
\* restarts at 1 on every not-duplicate classification made with a positive
\* window, and a not-duplicate classification made with a window <= 0
\* leaves the cache, the count included, as it is.
C27_CountIsOnePlusDuplicates ==
  [][/\ CountIsOnePlusDuplicates'
     /\ (ChecksNow(1) /\ ~frame'[1].is_dup)
        => event_cache'[frame[1].event_key].count = 1
     /\ (ClassifiesNow(1) /\ ~ChecksNow(1))
        => event_cache' = event_cache]_vars

\* An occurrence with window 0 has been classified not-duplicate while the
\* entry of its fingerprint, anchored once and hit by one duplicate, keeps
\* count 2.
C27_Witness ==
  /\ pc[1] = "classified"
  /\ frame[1].dedup_window <= 0
  /\ ~frame[1].is_dup
  /\ generate_event_key(frame[1].event) \in DOMAIN event_cache
  /\ event_cache[generate_event_key(frame[1].event)].count = 2
  /\ Cardinality(checks(log)) = 2

(***************************************************************************)
(* Expiry under fairness.                                                  *)
(***************************************************************************)
\* The fingerprints of the fair specification.
LiveKeys == {generate_event_key(EvFive), generate_event_key(EvBig)}

\* The entry of fingerprint k is anchored at t.
AnchoredAt(k, t) ==
  k \in DOMAIN event_cache /\ event_cache[k].timestamp = t

\* C28 as stated: while payloads keep being handled by receive_event, an
\* entry whose age exceeds the retention ceiling is eventually removed, or
\* re-anchored by a not-duplicate occurrence (another timestamp with
\* count 1); a duplicate does not refresh the timestamp and so does not
\* postpone the removal.
C28_OldEntryEventuallyRemoved ==
  \A k \in LiveKeys : \A t \in Times :
    (AnchoredAt(k, t) /\ now - t > RetentionCeiling)
      ~> \/ k \notin DOMAIN event_cache
         \/ (event_cache[k].timestamp # t /\ event_cache[k].count = 1)

(***************************************************************************)
(* The age of the entry a check finds.                                     *)
(***************************************************************************)
\* The elapsed time handler h computes at line 106 for the entry it finds.
elapsed(h) ==
  frame[h].current_time - event_cache[frame[h].event_key].timestamp

\* Handler h finds an entry of its fingerprint in its critical section.
FindsEntry(h) ==
  ChecksNow(h) /\ frame[h].event_key \in DOMAIN event_cache

\* C29 as stated: no occurrence is classified duplicate on an entry older
\* than the retention ceiling; such an entry is gone before the check.
C29_NoDuplicateOnOldEntry ==
  [][(FindsEntry(1) /\ frame'[1].is_dup)
       => elapsed(1) <= RetentionCeiling]_vars

\* C29, amended: an occurrence is classified duplicate exactly when the
\* entry of its fingerprint is present and younger than the occurrence's
\* window, whatever its age is relative to the retention ceiling: expiry
\* runs after the events of a payload, so an entry older than the ceiling
\* can still be there at a check.
C29_DuplicateIffYoungerThanWindow ==
  [][ChecksNow(1) =>
       (frame'[1].is_dup <=>
          /\ frame[1].event_key \in DOMAIN event_cache
          /\ elapsed(1) < frame[1].dedup_window)]_vars

\* An occurrence has been classified duplicate on an entry older than the
\* retention ceiling.
C29_Witness ==
  /\ pc[1] = "classified"
  /\ frame[1].is_dup
  /\ frame[1].event_key \in DOMAIN event_cache
  /\ elapsed(1) > RetentionCeiling

\* C30 as stated: in every interleaving the time a handler captured is
\* not earlier than the anchor it finds: the elapsed time is not negative.
C30_ElapsedNonNegative ==
  [][\A h \in Handlers : FindsEntry(h) => elapsed(h) >= 0]_vars

\* C30, amended: the anchor a handler finds is never later than the clock
\* at the check, but it can be later than the time the handler captured
\* before taking the lock (another handler captured its time later and
\* inserted first); the elapsed time is then negative and the occurrence is
\* classified duplicate: the count grows by 1 and the anchor stays.
C30_AnchorNotAfterClock ==
  [][\A h \in Handlers :
       FindsEntry(h) =>
         /\ event_cache[frame[h].event_key].timestamp <= now
         /\ elapsed(h) < 0 =>
              /\ frame'[h].is_dup
              /\ event_cache'[frame[h].event_key] =
                   [event_cache[frame[h].event_key] EXCEPT !.count = @ + 1]]_vars

\* A handler has been classified duplicate on an anchor two seconds later
\* than the time it had captured.
C30_Witness ==
  \E h \in Handlers :
    /\ pc[h] = "classified"
    /\ frame[h].is_dup
    /\ frame[h].event_key \in DOMAIN event_cache
    /\ elapsed(h) = 0 - 2

(***************************************************************************)
(* The two locks.                                                          *)
(***************************************************************************)
\* Nobody holds both locks, and a request that is not between the
\* acquisition and the release of a lock does not hold it: the handler
\* after its normal end or its failure, the reload outside its critical
\* section, the cache endpoints outside theirs.
LocksHeldOnlyInside ==
  /\ cache_lock \in {0, 1, Admin}
  /\ configs_lock \in {0, 1, Reloader}
  /\ ~(cache_lock = 1 /\ configs_lock = 1)
  /\ cache_lock = 1 <=> pc[1] \in {"check_and_record", "clean_cache"}
  /\ configs_lock = 1 <=> pc[1] = "get_device_config"
  /\ configs_lock = Reloader <=> reload.pc = "load"
  /\ cache_lock = Admin <=> admin.pc \in {"view", "clear_size", "clear_empty"}

\* C31: no handler holds the cache lock and the config lock together,
\* every lock is released on every path, the failing ones included, and
\* under fair scheduling every request of an event handler, every reload,
\* every snapshot and every clear comes to its end.
C31_LocksReleasedRequestsEnd ==
  /\ []LocksHeldOnlyInside
  /\ (pc[1] \notin {"idle", "failed"}) ~> (pc[1] \in {"idle", "failed"})
  /\ (reload.pc # "idle") ~> (reload.pc = "idle")
  /\ (admin.pc # "idle") ~> (admin.pc = "idle")

\* The handler waits for the cache lock, which a cache endpoint holds,
\* while the reload holds the config lock.
C31_Witness ==
  /\ pc[1] = "cache_lock"
  /\ cache_lock = Admin
  /\ configs_lock = Reloader

(***************************************************************************)
(* Single payload and batch of one.                                        *)
(***************************************************************************)
\* The other form of the delivery.
OtherForm == IF probe.form = "single" THEN "batch" ELSE "single"

\* What the clock gave at line 100 of the delivery; when the delivery did
\* not get there, any instant up to u.
Line100Reads(u) ==
  IF checks(log) # {} THEN {log[i].time : i \in checks(log)}
  ELSE {t \in Times : t <= u}

\* receive_event on the event in the other form, on the cache before the
\* delivery, when the clock gives t at line 100, if the request gets there,
\* and u at line 120.
InOtherForm(t, u) ==
  LET event == probe.event
      payload == as_payload(event, OtherForm)
      device_config ==
        Get(device_configs, Get(event, "DeviceId", "Unknown"), None)
      at_100 == /\ events_of(payload) # <<>>
                /\ ~window_disabled(
                      get_deduplication_window(event, device_config))
                /\ ~key_raises(event)
  IN  receive_event(payload, probe.cache,
                    IF at_100 THEN <<t, u>> ELSE <<u>>, device_configs)

\* The delivery has dispatched what it dispatches.
Dispatched == probe.kind = "deliver" /\ pc[1] = "clean_event_cache"

\* The delivery has returned.
Returned ==
  /\ probe.kind = "deliver"
  /\ pc[1] = "idle"
  /\ last_cache_op.op = "clean"

\* C32 as stated: an event delivered as a single payload has the same
\* effect on the cache and on the dispatched actions as the same event
\* delivered as a batch of one, whatever fields it lacks: what a delivery
\* in one form has dispatched, and the cache it leaves, are those of the
\* other form under the same reads of the clock.
C32_SingleSameAsBatch ==
  /\ Dispatched =>
       \E t \in Line100Reads(now) :
         frame[1].executed = InOtherForm(t, now).executed
  /\ Returned =>
       \E t \in Line100Reads(last_cache_op.time) :
         event_cache = InOtherForm(t, last_cache_op.time).event_cache

(***************************************************************************)
(* The window of the arriving occurrence.                                  *)
(***************************************************************************)
\* C33: an entry records no window, and an occurrence that finds an
\* anchor of its fingerprint is classified duplicate exactly when less than
\* its own window has elapsed since that anchor, whatever window the
\* occurrence that set the anchor carried; when it is classified
\* not-duplicate the entry restarts with count 1.
C33_OwnWindowDecides ==
  /\ \A k \in DOMAIN event_cache :
       DOMAIN event_cache[k] = {"timestamp", "count", "device_id"}
  /\ \A i \in checks(log) :
       LET fresh == {j \in Prior(i) : ~log[j].dup}
           anchor == CHOOSE j \in fresh : \A x \in fresh : x <= j
       IN  fresh # {} =>
             /\ log[i].dup <=>
                  log[i].time - log[anchor].time < log[i].window
             /\ ~log[i].dup => log[i].count = 1

\* An occurrence with window 5 has been classified not-duplicate, with
\* count 1, five seconds or more after an anchor set by an occurrence
\* whose window, above the retention ceiling, had not elapsed.
C33_Witness ==
  /\ Len(log) = 2
  /\ log[1].kind = "check" /\ log[2].kind = "check"
  /\ log[1].key = log[2].key
  /\ ~log[1].dup /\ log[1].window = RetentionCeiling + 2
  /\ log[2].window = 5
  /\ log[2].time - log[1].time >= 5
  /\ log[2].time - log[1].time < log[1].window
  /\ ~log[2].dup /\ log[2].count = 1
  /\ event_cache[log[2].key].timestamp = log[2].time

=============================================================================
